---- MODULE Spec2Model ----
(***************************************************************************)
(* Model of the secure-variable subsystem of prompt-manager:               *)
(*   src/src/secure_session.py    SecureSession (password, session file)   *)
(*   src/src/secure_variables.py  SecureVariableManager (encrypted store)  *)
(*   src/src/secure_crypto.py     SecureCrypto (encrypt / decrypt)         *)
(* Every public method is one action.  A method that prompts takes the     *)
(* text typed at its prompts as an input; what was actually prompted for   *)
(* is kept in `last`, with the method's result.  Time is a counter of      *)
(* minutes; an exception that leaves a method is the result "raise".       *)
(***************************************************************************)
EXTENDS Integers, Sequences, FiniteSets, TLC

VARIABLES
    now,                  \* datetime.now(), in minutes
    session_ttl_minutes,  \* SecureSession.session_ttl_minutes
    security_available,   \* `which security` succeeds on this machine
    keychain,             \* the keychain item 'prompt-manager-secure' ("" when there is none)
    hash_file,            \* content of ~/.pm_secure_hash ("" when there is no file)
    session_file,         \* the file <tmp>/.pm_secure_session
    secure_data_file,     \* the store file <data>_secure.json
    export_file,          \* the file export_secure_variables_encrypted writes
    audit_log,            \* SecureVariableManager.audit_log
    cryptography_installed, \* `from cryptography... import` succeeds on this machine
    stdout,               \* what interactive_setup has printed of the capability check
    file_mode,            \* the permission bits each file has when it exists
    process,              \* where each process is inside the method it is running
    last                  \* the last call: method, arguments, prompts, result

storeVars == <<secure_data_file, export_file, audit_log>>

flowVars == <<cryptography_installed, stdout>>

stepVars == <<file_mode, process>>

vars == <<now, session_ttl_minutes, security_available, keychain, hash_file,
          session_file, secure_data_file, export_file, audit_log,
          cryptography_installed, stdout, file_mode, process, last>>

(***************************************************************************)
(* The files, their permission bits, and the processes.  A method that     *)
(* runs as one action leaves every file it wrote owner-only (its chmod is  *)
(* part of the action, and a rewrite of an existing file keeps its bits)   *)
(* and leaves its process idle.                                            *)
(***************************************************************************)
FileNames == {"session", "store", "export", "hash"}
OwnerOnly == "0600"
AllOwnerOnly == [f \in FileNames |-> OwnerOnly]

Procs == {1, 2}
Idle == [pc |-> "idle", op |-> "none", local |-> <<>>]
AllIdle == [p \in Procs |-> Idle]

(***************************************************************************)
(* Bounds of the model.                                                    *)
(***************************************************************************)
MaxTime == 3
MaxAccess == 1
MaxEntries == 3
MaxExpiry == 5
MaxAudit == 1

\* Values get_session_ttl_from_config() may hand to SecureSession.
TTLs == {1, 2}

\* What a user may type at a password prompt.
Passwords == {"", "short", "CorrectHorse1", "Tr0ub4dor&3"}

\* What a user may type at the prompts of one password request: the
\* password, and the confirmation that only a setup asks for.
NotPrompted == "<not prompted>"
SetupEntries ==
    { [password |-> p, confirm |-> p] : p \in Passwords \ {""} }
      \cup { [password |-> "CorrectHorse1", confirm |-> "Tr0ub4dor&3"] }
VerifyEntries ==
    { [password |-> p, confirm |-> NotPrompted] : p \in Passwords \ {"short"} }

\* Arguments of extend_session: <<>> is None (the default).
ExtendArgs == {<<>>, <<-1>>, <<0>>, <<1>>}

(***************************************************************************)
(* SecureSession.__init__                                                  *)
(***************************************************************************)
max_attempts_Four == 3 + 1

max_attempts == 3

(***************************************************************************)
(* The session file.  `shape` is what json.load makes of the content;      *)
(* for a JSON object, `keys` are the keys it has and expires_type tells    *)
(* whether 'expires_at' is an ISO-8601 string, another string, or not a    *)
(* string.  A key that is absent carries a filler value that is never read.*)
(***************************************************************************)
NoHash == ""
SessionKeys == {"password_hash", "created_at", "expires_at", "access_count"}

NoFile ==
    [shape |-> "absent", keys |-> {}, expires_type |-> "iso",
     password_hash |-> NoHash, created_at |-> 0, expires_at |-> 0,
     access_count |-> 0]

SessionData(h, c, e, n) ==
    [shape |-> "object", keys |-> SessionKeys, expires_type |-> "iso",
     password_hash |-> h, created_at |-> c, expires_at |-> e,
     access_count |-> n]

WellFormed(f) ==
    f.shape = "object" /\ f.keys = SessionKeys /\ f.expires_type = "iso"

(***************************************************************************)
(* _get_session_data: ret is "data" (the dict is returned), "None" or      *)
(* "raise" (AttributeError / TypeError, which the except clause does not   *)
(* name); file is the session file afterwards.                             *)
(***************************************************************************)
\* Mutant: a session is taken as expired a minute late.
Expired_AMinuteLate(t, expires_at) == t > expires_at + 1

Expired(t, expires_at) == t > expires_at

GetSessionData(f, t) ==
    CASE f.shape = "absent"    -> [ret |-> "None", file |-> f]
      [] f.shape = "garbage"   -> [ret |-> "None", file |-> NoFile]
      [] f.shape = "nonobject" -> [ret |-> "raise", file |-> f]
      [] OTHER ->
           IF "expires_at" \notin f.keys THEN [ret |-> "None", file |-> NoFile]
           ELSE IF f.expires_type = "nonstring" THEN [ret |-> "raise", file |-> f]
           ELSE IF f.expires_type = "badstring" THEN [ret |-> "None", file |-> NoFile]
           ELSE IF Expired(t, f.expires_at) THEN [ret |-> "None", file |-> NoFile]
           ELSE [ret |-> "data", file |-> f]

(***************************************************************************)
(* _create_session                                                         *)
(***************************************************************************)
CreateSession_NoTTL(password_hash, t, ttl) ==
    SessionData(password_hash, t, t, 0)

CreateSession(password_hash, t, ttl) ==
    SessionData(password_hash, t, t + ttl, 0)

(***************************************************************************)
(* _prompt_for_password: the password the prompt yields for what was typed.*)
(***************************************************************************)
MinPasswordLen == 8

PromptForPassword_NoLength(is_setup, entry) ==
    IF is_setup
    THEN IF entry.password # entry.confirm THEN "" ELSE entry.password
    ELSE entry.password

PromptForPassword(is_setup, entry) ==
    IF is_setup
    THEN IF entry.password # entry.confirm THEN ""
         ELSE IF Len(entry.password) < MinPasswordLen THEN ""
         ELSE entry.password
    ELSE entry.password

(***************************************************************************)
(* _hash_password: PBKDF2-HMAC-SHA256 under the machine's fixed salt, in   *)
(* hex.  Distinct passwords have distinct hashes, and no hash is a         *)
(* password.                                                               *)
(***************************************************************************)
\* Mutant: the password is kept as it was typed.
HashPassword_Identity(password) == password

HashPassword(password) == "pbkdf2_hmac_sha256$" \o password

Hashes == { HashPassword(p) : p \in Passwords }

(***************************************************************************)
(* _get_stored_password_hash ("" stands for None).  With the `security`    *)
(* tool present the keychain's answer is returned, also when it is empty;  *)
(* the file is read only without the tool.                                 *)
(***************************************************************************)
GetStoredPasswordHash(sec, kc, hf) ==
    IF sec THEN kc ELSE hf

(***************************************************************************)
(* _store_password_hash: kc_ok is whether `security add-generic-password`  *)
(* exits 0, file_ok whether ~/.pm_secure_hash can be written.              *)
(***************************************************************************)
StorePasswordHash(password_hash, sec, kc, hf, kc_ok, file_ok) ==
    IF sec /\ kc_ok THEN [ok |-> TRUE, keychain |-> password_hash, hash_file |-> hf]
    ELSE IF file_ok THEN [ok |-> TRUE, keychain |-> kc, hash_file |-> password_hash]
    ELSE [ok |-> FALSE, keychain |-> kc, hash_file |-> hf]

(***************************************************************************)
(* The prompt loop of authenticate (lines 115-145).  `prompts` counts the  *)
(* password requests made so far, which are entries[1..prompts].  The      *)
(* result says how the loop ended; a request past the last entry blocks.   *)
(***************************************************************************)
RECURSIVE PromptLoop(_, _, _, _)
PromptLoop(attempts, prompts, entries, c) ==
    IF ~(attempts < max_attempts)
    THEN [result |-> "False", prompts |-> prompts, create |-> FALSE,
          password_hash |-> NoHash, keychain |-> c.keychain, hash_file |-> c.hash_file]
    ELSE IF prompts + 1 > Len(entries)
    THEN [result |-> "blocked", prompts |-> prompts + 1, create |-> FALSE,
          password_hash |-> NoHash, keychain |-> c.keychain, hash_file |-> c.hash_file]
    ELSE
      LET password == PromptForPassword(c.is_setup, entries[prompts + 1])
          password_hash == HashPassword(password)
      IN  IF password = ""
          THEN PromptLoop(attempts + 1, prompts + 1, entries, c)
          ELSE IF c.is_setup
          THEN LET st == StorePasswordHash(password_hash, c.security_available,
                                           c.keychain, c.hash_file, c.kc_ok, c.file_ok)
               IN  [result |-> IF st.ok THEN "True" ELSE "False",
                    prompts |-> prompts + 1, create |-> st.ok,
                    password_hash |-> password_hash,
                    keychain |-> st.keychain, hash_file |-> st.hash_file]
          ELSE IF password_hash = c.stored_hash
          THEN [result |-> "True", prompts |-> prompts + 1, create |-> TRUE,
                password_hash |-> password_hash,
                keychain |-> c.keychain, hash_file |-> c.hash_file]
          ELSE PromptLoop(attempts + 1, prompts + 1, entries, c)

(***************************************************************************)
(* authenticate (lines 98-145), from session file f at time t.  `entered`  *)
(* is what the prompts were given.                                         *)
(***************************************************************************)
Transcript(entries, prompts) ==
    SubSeq(entries, 1, IF prompts <= Len(entries) THEN prompts ELSE Len(entries))

Only(S) == CHOOSE x \in S : TRUE

Authenticate(f, t, ttl, sec, kc, hf, force_new, in) ==
    LET quiet == [result |-> "raise", prompts |-> 0, entered |-> <<>>,
                  session_file |-> f, keychain |-> kc, hash_file |-> hf]
        stored_hash == GetStoredPasswordHash(sec, kc, hf)
        is_setup == stored_hash = NoHash
        prompted(f1) ==
            Only({ [result |-> r.result, prompts |-> r.prompts,
                    entered |-> Transcript(in.entries, r.prompts),
                    session_file |-> IF r.create
                                     THEN CreateSession(r.password_hash, t, ttl)
                                     ELSE f1,
                    keychain |-> r.keychain, hash_file |-> r.hash_file] :
                   r \in { PromptLoop(0, 0, in.entries,
                             [is_setup |-> is_setup, stored_hash |-> stored_hash,
                              security_available |-> sec, keychain |-> kc,
                              hash_file |-> hf, kc_ok |-> in.kc_ok,
                              file_ok |-> in.file_ok]) } })
    IN  IF force_new THEN prompted(f)
        ELSE Only({ IF sd.ret = "raise" THEN quiet
                    ELSE IF sd.ret = "data"
                    THEN IF "access_count" \notin f.keys THEN quiet
                         ELSE [quiet EXCEPT !.result = "True",
                                            !.session_file = [f EXCEPT !.access_count = @ + 1]]
                    ELSE prompted(sd.file) :
                    sd \in {GetSessionData(f, t)} })

\* Whether authenticate gets as far as its prompts.
Prompts(f, t, force_new) ==
    force_new \/ GetSessionData(f, t).ret = "None"

\* The inputs of one authenticate call: what the user types and how the
\* credential stores answer.  The user types one entry that is turned down
\* some number of times and then another entry for as long as asked,
\* MaxEntries + 1 times at most.  The stores' answers matter only to a
\* setup that gets a password.
NoInput == [entries |-> <<>>, kc_ok |-> TRUE, file_ok |-> TRUE]

Accepted(is_setup, stored_hash, entry) ==
    LET password == PromptForPassword(is_setup, entry)
    IN  password # "" /\ (is_setup \/ HashPassword(password) = stored_hash)

Typed(is_setup, stored_hash) ==
    LET E == IF is_setup THEN SetupEntries ELSE VerifyEntries
    IN  { [i \in 1..(MaxEntries + 1) |-> IF i < k THEN first ELSE then] :
            first \in {e \in E : ~Accepted(is_setup, stored_hash, e)},
            then \in E, k \in 1..(MaxEntries + 1) }

TypedSetup == Typed(TRUE, NoHash)
TypedVerify == [h \in Hashes |-> Typed(FALSE, h)]

\* How the credential stores answer (keychain add succeeds, fallback file
\* written) when the last entry is given to a setup.
StoreAnswers(is_setup, stored_hash, sec, entry) ==
    IF is_setup /\ Accepted(is_setup, stored_hash, entry)
    THEN IF sec THEN {<<TRUE, TRUE>>, <<FALSE, TRUE>>, <<FALSE, FALSE>>}
         ELSE {<<FALSE, TRUE>>, <<FALSE, FALSE>>}
    ELSE {<<TRUE, TRUE>>}

AuthInputs(f, t, sec, kc, hf, force_new) ==
    IF ~Prompts(f, t, force_new) THEN {NoInput}
    ELSE
      LET stored_hash == GetStoredPasswordHash(sec, kc, hf)
          is_setup == stored_hash = NoHash
      IN  UNION { { [entries |-> e, kc_ok |-> k[1], file_ok |-> k[2]] :
                      k \in StoreAnswers(is_setup, stored_hash, sec, e[MaxEntries + 1]) } :
                  e \in IF is_setup THEN TypedSetup ELSE TypedVerify[stored_hash] }

(***************************************************************************)
(* The files of SecureVariableManager.  None is <<>> throughout and <<x>>  *)
(* a value that is there.  The store file holds a document:                *)
(* 'secure_variables', a function from the names stored, and 'metadata';   *)
(* the document _load_secure_data makes up when there is no file is        *)
(* FreshDocument.  The document of an export has 'export_metadata' too.     *)
(***************************************************************************)
None == <<>>
Some(x) == <<x>>

NoVariables == [n \in {} |-> None]

FreshDocument(t) ==
    [secure_variables |-> NoVariables,
     metadata |-> [created_at |-> t, last_modified |-> None]]

NoSecureFile == [shape |-> "absent", doc |-> FreshDocument(0)]

\* A store file that json.load cannot parse, and one whose JSON is an
\* object without 'secure_variables'.
UnparsableFile == [shape |-> "garbage", doc |-> FreshDocument(0)]
ObjectFile == [shape |-> "object", doc |-> FreshDocument(0)]

NoExportFile == [shape |-> "absent", doc |-> FreshDocument(0)]

(***************************************************************************)
(* The record of a call.                                                   *)
(***************************************************************************)
Call(op, force_new, arg, result, prompts, entered) ==
    [op |-> op, force_new |-> force_new, arg |-> arg, result |-> result,
     prompts |-> prompts, entered |-> entered, out |-> <<>>]

Init ==
    /\ now = 0
    /\ session_ttl_minutes \in TTLs
    /\ security_available \in BOOLEAN
    /\ keychain = NoHash
    /\ hash_file = NoHash
    /\ session_file = NoFile
    /\ secure_data_file = NoSecureFile
    /\ export_file = NoExportFile
    /\ audit_log = <<>>
    /\ cryptography_installed = TRUE
    /\ stdout = <<>>
    /\ file_mode = AllOwnerOnly
    /\ process = AllIdle
    /\ last = Call("init", FALSE, <<>>, "None", 0, <<>>)

(***************************************************************************)
(* The clock.                                                              *)
(***************************************************************************)
Tick ==
    /\ now < MaxTime
    /\ now' = now + 1
    /\ UNCHANGED <<session_ttl_minutes, security_available, keychain,
                   hash_file, session_file, last>>
    /\ UNCHANGED <<storeVars, flowVars, stepVars>>

(***************************************************************************)
(* SecureSession's public methods.                                         *)
(***************************************************************************)
authenticate ==
    \E force_new \in BOOLEAN :
    \E in \in AuthInputs(session_file, now, security_available, keychain,
                         hash_file, force_new) :
    \E a \in {Authenticate(session_file, now, session_ttl_minutes,
                           security_available, keychain, hash_file, force_new, in)} :
          /\ a.session_file.access_count <= MaxAccess
          /\ session_file' = a.session_file
          /\ keychain' = a.keychain
          /\ hash_file' = a.hash_file
          /\ last' = Call("authenticate", force_new, <<>>, a.result, a.prompts,
                          a.entered)
          /\ UNCHANGED <<now, session_ttl_minutes, security_available>>
          /\ UNCHANGED <<storeVars, flowVars, stepVars>>

is_authenticated ==
    LET sd == GetSessionData(session_file, now)
    IN  /\ session_file' = sd.file
        /\ last' = Call("is_authenticated", FALSE, <<>>,
                        CASE sd.ret = "raise" -> "raise"
                          [] sd.ret = "data"  -> "True"
                          [] OTHER            -> "False",
                        0, <<>>)
        /\ UNCHANGED <<now, session_ttl_minutes, security_available, keychain,
                       hash_file>>
        /\ UNCHANGED <<storeVars, flowVars, stepVars>>

\* Mutant: logout leaves the session file where it is.
logout_LeavesFile ==
    /\ session_file' = session_file
    /\ last' = Call("logout", FALSE, <<>>, "True", 0, <<>>)
    /\ UNCHANGED <<now, session_ttl_minutes, security_available, keychain,
                   hash_file>>
    /\ UNCHANGED <<storeVars, flowVars, stepVars>>

logout ==
    /\ session_file' = NoFile
    /\ last' = Call("logout", FALSE, <<>>, "True", 0, <<>>)
    /\ UNCHANGED <<now, session_ttl_minutes, security_available, keychain,
                   hash_file>>
    /\ UNCHANGED <<storeVars, flowVars, stepVars>>

\* The result "info" carries time_remaining_minutes in arg.
get_session_info ==
    LET sd == GetSessionData(session_file, now)
    IN  /\ session_file' = sd.file
        /\ last' = CASE sd.ret = "raise" ->
                          Call("get_session_info", FALSE, <<>>, "raise", 0, <<>>)
                     [] sd.ret = "None" ->
                          Call("get_session_info", FALSE, <<>>, "None", 0, <<>>)
                     [] OTHER ->
                          IF "created_at" \notin session_file.keys
                          THEN Call("get_session_info", FALSE, <<>>, "raise", 0, <<>>)
                          ELSE Call("get_session_info", FALSE,
                                    <<session_file.expires_at - now>>, "info",
                                    0, <<>>)
        /\ UNCHANGED <<now, session_ttl_minutes, security_available, keychain,
                       hash_file>>
        /\ UNCHANGED <<storeVars, flowVars, stepVars>>

\* extend_session (lines 219-237): the session file after the call, and the result.
ExtendSession(f, t, ttl, arg) ==
    LET sd == GetSessionData(f, t)
        additional_minutes == IF arg = <<>> THEN ttl ELSE arg[1]
    IN  CASE sd.ret = "raise" -> [result |-> "raise", file |-> f]
          [] sd.ret = "None"  -> [result |-> "False", file |-> sd.file]
          [] OTHER -> [result |-> "True",
                       file |-> [f EXCEPT !.expires_at = @ + additional_minutes]]

extend_session ==
    \E arg \in ExtendArgs :
    \E x \in {ExtendSession(session_file, now, session_ttl_minutes, arg)} :
          /\ x.file.expires_at \in 0..MaxExpiry
          /\ session_file' = x.file
          /\ last' = Call("extend_session", FALSE, arg, x.result, 0, <<>>)
          /\ UNCHANGED <<now, session_ttl_minutes, security_available, keychain,
                         hash_file>>
          /\ UNCHANGED <<storeVars, flowVars, stepVars>>

Next ==
    \/ Tick
    \/ authenticate
    \/ is_authenticated
    \/ logout
    \/ get_session_info
    \/ extend_session

Spec == Init /\ [][Next]_vars

(***************************************************************************)
(* The session file lies in the shared temp directory: another program, a  *)
(* crash in mid-write or a full disk can leave anything in it.  SpecEnv    *)
(* adds that to the program's own steps.  The objects below hold a future  *)
(* expiry unless 'expires_at' is what is wrong with them.                  *)
(***************************************************************************)
MalformedFiles(t, h) ==
    LET obj == SessionData(h, t, t + 1, 0)
    IN  { [NoFile EXCEPT !.shape = "garbage"],
          [NoFile EXCEPT !.shape = "nonobject"],
          [obj EXCEPT !.keys = SessionKeys \ {"expires_at"}, !.expires_at = 0],
          [obj EXCEPT !.expires_type = "nonstring", !.expires_at = 0],
          [obj EXCEPT !.expires_type = "badstring", !.expires_at = 0],
          [obj EXCEPT !.keys = SessionKeys \ {"password_hash"}, !.password_hash = NoHash],
          [obj EXCEPT !.keys = SessionKeys \ {"access_count"}] }

TamperSessionFile ==
    /\ \E f \in MalformedFiles(now, GetStoredPasswordHash(security_available,
                                                          keychain, hash_file)) :
          session_file' = f
    /\ last' = Call("(session file overwritten)", FALSE, <<>>, "None", 0, <<>>)
    /\ UNCHANGED <<now, session_ttl_minutes, security_available, keychain,
                   hash_file>>
    /\ UNCHANGED <<storeVars, flowVars, stepVars>>

NextEnv == Next \/ TamperSessionFile

SpecEnv == Init /\ [][NextEnv]_vars

(***************************************************************************)
(* SecureCrypto, with the cryptography package installed (AES-256-CBC, a   *)
(* key derived from the password hash and a fresh random salt).  A         *)
(* ciphertext is modelled by what went into it; decrypt gives the          *)
(* plaintext back under the same password hash and None under any other.   *)
(***************************************************************************)
\* Mutant: the text is stored as it is, under no cipher.
Encrypt_Nothing(plaintext, password_hash, salt) ==
    [cipher |-> "none", salt |-> salt, key |-> password_hash,
     plaintext |-> plaintext]

Encrypt(plaintext, password_hash, salt) ==
    [cipher |-> "AES-256-CBC", salt |-> salt, key |-> password_hash,
     plaintext |-> plaintext]

Decrypt(encrypted_data, password_hash) ==
    IF encrypted_data.key = password_hash
    THEN Some(encrypted_data.plaintext)
    ELSE None

\* Three draws of os.urandom, one for each encrypt call a method can make.
SaltDraws == {<<1, 2, 3>>}

EncryptedValuePlaceholder == "***************"

\* A record that is created as already used once.
CreateEncryptedVariable_Used(description, value, default_value, password_hash, t, salts) ==
    [encrypted_value |-> Encrypt(value, password_hash, salts[1]),
     encrypted_description |-> Encrypt(description, password_hash, salts[2]),
     is_secure |-> TRUE,
     created_at |-> t,
     used_count |-> 1,
     last_accessed |-> None,
     last_modified |-> None,
     encrypted_default |->
         IF default_value # None /\ default_value[1] # ""
         THEN Some(Encrypt(default_value[1], password_hash, salts[3]))
         ELSE None]

\* create_encrypted_metadata (lines 143-159) with the 'encrypted_value'
\* that add_secure_variable puts beside it.
CreateEncryptedVariable(description, value, default_value, password_hash, t, salts) ==
    [encrypted_value |-> Encrypt(value, password_hash, salts[1]),
     encrypted_description |-> Encrypt(description, password_hash, salts[2]),
     is_secure |-> TRUE,
     created_at |-> t,
     used_count |-> 0,
     last_accessed |-> None,
     last_modified |-> None,
     encrypted_default |->
         IF default_value # None /\ default_value[1] # ""
         THEN Some(Encrypt(default_value[1], password_hash, salts[3]))
         ELSE None]

\* decrypt_metadata (lines 161-181): the 'description' and 'default_value'
\* it adds.
DecryptMetadata(metadata, password_hash) ==
    [description |->
         LET d == Decrypt(metadata.encrypted_description, password_hash)
         IN  IF d # None /\ d[1] # "" THEN d[1]
             ELSE "[ENCRYPTED - CANNOT DECRYPT]",
     default_value |->
         IF metadata.encrypted_default = None THEN None
         ELSE LET d == Decrypt(metadata.encrypted_default[1], password_hash)
              IN  IF d # None /\ d[1] # "" THEN d ELSE Some("[ENCRYPTED]")]

(***************************************************************************)
(* SecureVariableManager (secure_variables.py).                            *)
(***************************************************************************)
\* _load_secure_data (lines 29-44) and _save_secure_data (lines 46-52).
LoadSecureData(file, t) ==
    IF file.shape = "json" THEN file.doc ELSE FreshDocument(t)

SaveSecureData(data) == [shape |-> "json", doc |-> data]

\* secure_data['secure_variables'] raises KeyError on what was loaded; a
\* method that reads it inside its try block logs str(e) and fails.
MissingMap(file) == file.shape = "object"
KeyErrorText == "'secure_variables'"

\* _get_password_hash (lines 54-59).
GetPasswordHash(f, t) ==
    IF GetSessionData(f, t).ret = "data" /\ "password_hash" \in f.keys
    THEN f.password_hash
    ELSE NoHash

\* _log_audit_event (lines 61-76).
AuditCap == 100
User == "user"

AuditEvent(t, action, variable_name, success, details) ==
    [timestamp |-> t, action |-> action, variable_name |-> variable_name,
     success |-> success, user |-> User, details |-> details]

LogAuditEvent(log, event) ==
    LET appended == Append(log, event)
    IN  IF Len(appended) > AuditCap
        THEN SubSeq(appended, Len(appended) - AuditCap + 1, Len(appended))
        ELSE appended

\* The gate every store method opens with:
\*     if not self.session.is_authenticated():
\*         if not self.session.authenticate(): <fail>
RequireAuth(f, t, ttl, sec, kc, hf, in) ==
    Only({ IF sd.ret = "raise"
           THEN [result |-> "raise", prompts |-> 0, entered |-> <<>>,
                 session_file |-> f, keychain |-> kc, hash_file |-> hf]
           ELSE IF sd.ret = "data"
           THEN [result |-> "True", prompts |-> 0, entered |-> <<>>,
                 session_file |-> f, keychain |-> kc, hash_file |-> hf]
           ELSE Authenticate(sd.file, t, ttl, sec, kc, hf, FALSE, in) :
           sd \in {GetSessionData(f, t)} })

\* is_authenticated() would return True now.
ValidSessionNow == GetSessionData(session_file, now).ret = "data"

\* The inputs of an authenticate call by a user whose password is
\* OwnPassword and who types the same entry at every prompt: that password,
\* or one that is turned down.
OwnPassword == "CorrectHorse1"

RepeatedInputs(f, t, sec, kc, hf, force_new) ==
    IF ~Prompts(f, t, force_new) THEN {NoInput}
    ELSE
      LET stored_hash == GetStoredPasswordHash(sec, kc, hf)
          is_setup == stored_hash = NoHash
          E == IF is_setup THEN SetupEntries ELSE VerifyEntries
      IN  UNION { { [entries |-> [i \in 1..(MaxEntries + 1) |-> e],
                     kc_ok |-> k[1], file_ok |-> k[2]] :
                      k \in StoreAnswers(is_setup, stored_hash, sec, e) } :
                  e \in { e \in E : \/ e.password = OwnPassword
                                    \/ ~Accepted(is_setup, stored_hash, e) } }

GateInputs(f, t, sec, kc, hf) == RepeatedInputs(f, t, sec, kc, hf, FALSE)

\* input(...).strip().lower() (lines 99 and 280), on the answers a user may
\* type at a "(y/N)" prompt.
TypedAnswers == {"y", "Y", " y ", "yes", "n", "N", ""}

Strip(answer) == IF answer = " y " THEN "y" ELSE answer

Lower(answer) ==
    CASE answer = "Y" -> "y"
      [] answer = "N" -> "n"
      [] OTHER -> answer

StripLower_FirstLetter(answer) ==
    IF answer = "yes" THEN "y" ELSE Lower(Strip(answer))

StripLower(answer) == Lower(Strip(answer))

\* What a store method leaves: its result, what it returns beside it, the
\* store file, the export file and the audit events it logged.
Outcome(result, out, file, export, events) ==
    [result |-> result, out |-> out, file |-> file, export |-> export,
     events |-> events]

\* add_secure_variable (lines 78-129).  `out` is the answer read at the
\* "Overwrite? (y/N)" prompt, None when the method did not ask.
AddSecureVariable(g, file, export, t, name, description, value, default_value, overwrite, salts) ==
    LET password_hash == GetPasswordHash(g.session_file, t)
        secure_data == LoadSecureData(file, t)
        exists == name \in DOMAIN secure_data.secure_variables
        var_data == CreateEncryptedVariable(description, value, default_value,
                                            password_hash, t, salts)
        saved == [secure_data EXCEPT
                     !.secure_variables =
                      [n \in DOMAIN secure_data.secure_variables \cup {name} |->
                          IF n = name THEN var_data
                          ELSE secure_data.secure_variables[n]],
                     !.metadata.last_modified = Some(t)]
        failed(details) ==
            <<AuditEvent(t, "add_secure_variable", name, FALSE, details)>>
    IN  CASE g.result = "raise" -> Outcome("raise", None, file, export, <<>>)
          [] g.result = "False" ->
                 Outcome("False", None, file, export, failed(Some("Authentication failed")))
          [] g.result = "True" /\ password_hash = NoHash ->
                 Outcome("False", None, file, export, failed(Some("No password hash")))
          [] MissingMap(file) ->
                 Outcome("False", None, file, export, failed(Some(KeyErrorText)))
          [] OTHER ->
                 IF exists /\ StripLower(overwrite) # "y"
                 THEN Outcome("False", Some(overwrite), file, export,
                              failed(Some("User cancelled overwrite")))
                 ELSE Outcome("True", IF exists THEN Some(overwrite) ELSE None,
                              SaveSecureData(saved), export,
                              <<AuditEvent(t, "add_secure_variable", name, TRUE,
                                           None)>>)

\* get_secure_variable (lines 131-170).  `out` is the value returned.
GetSecureVariable_Truthy(g, file, export, t, name) ==
    LET password_hash == GetPasswordHash(g.session_file, t)
        secure_data == LoadSecureData(file, t)
        var_data == secure_data.secure_variables[name]
        decrypted_value == Decrypt(var_data.encrypted_value, password_hash)
        saved == [secure_data EXCEPT
                     !.secure_variables[name].used_count = @ + 1,
                     !.secure_variables[name].last_accessed = Some(t)]
        event(success, details) ==
            <<AuditEvent(t, "get_secure_variable", name, success, details)>>
    IN  CASE g.result = "raise" -> Outcome("raise", None, file, export, <<>>)
          [] g.result = "False" ->
                 Outcome("None", None, file, export,
                         event(FALSE, Some("Authentication failed")))
          [] g.result = "True" /\ password_hash = NoHash ->
                 Outcome("None", None, file, export, <<>>)
          [] OTHER ->
                 IF name \notin DOMAIN secure_data.secure_variables
                 THEN Outcome("None", None, file, export, <<>>)
                 ELSE IF decrypted_value # None /\ decrypted_value[1] # ""
                 THEN Outcome("value", decrypted_value, SaveSecureData(saved),
                              export, event(TRUE, None))
                 ELSE Outcome("None", None, file, export,
                              event(FALSE, Some("Decryption failed")))

GetSecureVariable_CountsFailure(g, file, export, t, name) ==
    LET password_hash == GetPasswordHash(g.session_file, t)
        secure_data == LoadSecureData(file, t)
        var_data == secure_data.secure_variables[name]
        decrypted_value == Decrypt(var_data.encrypted_value, password_hash)
        saved == [secure_data EXCEPT
                     !.secure_variables[name].used_count = @ + 1,
                     !.secure_variables[name].last_accessed = Some(t)]
        event(success, details) ==
            <<AuditEvent(t, "get_secure_variable", name, success, details)>>
    IN  CASE g.result = "raise" -> Outcome("raise", None, file, export, <<>>)
          [] g.result = "False" ->
                 Outcome("None", None, file, export,
                         event(FALSE, Some("Authentication failed")))
          [] g.result = "True" /\ password_hash = NoHash ->
                 Outcome("None", None, file, export, <<>>)
          [] OTHER ->
                 IF name \notin DOMAIN secure_data.secure_variables
                 THEN Outcome("None", None, file, export, <<>>)
                 ELSE IF decrypted_value # None
                 THEN Outcome("value", decrypted_value, SaveSecureData(saved),
                              export, event(TRUE, None))
                 ELSE Outcome("None", None, SaveSecureData(saved), export,
                              event(FALSE, Some("Decryption failed")))

GetSecureVariable(g, file, export, t, name) ==
    LET password_hash == GetPasswordHash(g.session_file, t)
        secure_data == LoadSecureData(file, t)
        var_data == secure_data.secure_variables[name]
        decrypted_value == Decrypt(var_data.encrypted_value, password_hash)
        saved == [secure_data EXCEPT
                     !.secure_variables[name].used_count = @ + 1,
                     !.secure_variables[name].last_accessed = Some(t)]
        event(success, details) ==
            <<AuditEvent(t, "get_secure_variable", name, success, details)>>
    IN  CASE g.result = "raise" -> Outcome("raise", None, file, export, <<>>)
          [] g.result = "False" ->
                 Outcome("None", None, file, export,
                         event(FALSE, Some("Authentication failed")))
          [] g.result = "True" /\ password_hash = NoHash ->
                 Outcome("None", None, file, export, <<>>)
          [] MissingMap(file) ->
                 Outcome("None", None, file, export,
                         event(FALSE, Some(KeyErrorText)))
          [] OTHER ->
                 IF name \notin DOMAIN secure_data.secure_variables
                 THEN Outcome("None", None, file, export, <<>>)
                 ELSE IF decrypted_value # None
                 THEN Outcome("value", decrypted_value, SaveSecureData(saved),
                              export, event(TRUE, None))
                 ELSE Outcome("None", None, file, export,
                              event(FALSE, Some("Decryption failed")))

\* list_secure_variables (lines 172-209).  `out` is the list returned, as a
\* function from the names listed.
ListSecureVariables_AlwaysShows(g, file, export, t, show_values) ==
    LET password_hash == GetPasswordHash(g.session_file, t)
        secure_data == LoadSecureData(file, t)
        variables == secure_data.secure_variables
        var_info(name) ==
            LET var_data == variables[name]
                decrypted_metadata == DecryptMetadata(var_data, password_hash)
                has_default == var_data.encrypted_default # None
                decrypted_value == Decrypt(var_data.encrypted_value, password_hash)
            IN  [name |-> name,
                 description |-> decrypted_metadata.description,
                 is_secure |-> TRUE,
                 created_at |-> var_data.created_at,
                 used_count |-> var_data.used_count,
                 last_accessed |-> var_data.last_accessed,
                 has_default |-> has_default,
                 value |->
                     IF password_hash # NoHash
                     THEN IF decrypted_value # None /\ decrypted_value[1] # ""
                          THEN decrypted_value[1] ELSE "[DECRYPT_FAILED]"
                     ELSE EncryptedValuePlaceholder,
                 default_value |->
                     IF password_hash # NoHash
                     THEN decrypted_metadata.default_value
                     ELSE IF has_default THEN Some(EncryptedValuePlaceholder)
                          ELSE None]
    IN  CASE g.result = "raise" -> Outcome("raise", None, file, export, <<>>)
          [] g.result = "False" -> Outcome("list", NoVariables, file, export, <<>>)
          [] OTHER ->
                 Outcome("list", [n \in DOMAIN variables |-> var_info(n)],
                         file, export,
                         <<AuditEvent(t, "list_secure_variables", "ALL", TRUE,
                                      Some("Listed " \o ToString(Cardinality(DOMAIN variables))
                                              \o " variables"))>>)

ListSecureVariables(g, file, export, t, show_values) ==
    LET password_hash == GetPasswordHash(g.session_file, t)
        secure_data == LoadSecureData(file, t)
        variables == secure_data.secure_variables
        var_info(name) ==
            LET var_data == variables[name]
                decrypted_metadata == DecryptMetadata(var_data, password_hash)
                has_default == var_data.encrypted_default # None
                decrypted_value == Decrypt(var_data.encrypted_value, password_hash)
            IN  [name |-> name,
                 description |-> decrypted_metadata.description,
                 is_secure |-> TRUE,
                 created_at |-> var_data.created_at,
                 used_count |-> var_data.used_count,
                 last_accessed |-> var_data.last_accessed,
                 has_default |-> has_default,
                 value |->
                     IF show_values /\ password_hash # NoHash
                     THEN IF decrypted_value # None /\ decrypted_value[1] # ""
                          THEN decrypted_value[1] ELSE "[DECRYPT_FAILED]"
                     ELSE EncryptedValuePlaceholder,
                 default_value |->
                     IF show_values /\ password_hash # NoHash
                     THEN decrypted_metadata.default_value
                     ELSE IF has_default THEN Some(EncryptedValuePlaceholder)
                          ELSE None]
    IN  CASE g.result = "raise" -> Outcome("raise", None, file, export, <<>>)
          [] g.result = "False" -> Outcome("list", NoVariables, file, export, <<>>)
          [] MissingMap(file) -> Outcome("raise", None, file, export, <<>>)
          [] OTHER ->
                 Outcome("list", [n \in DOMAIN variables |-> var_info(n)],
                         file, export,
                         <<AuditEvent(t, "list_secure_variables", "ALL", TRUE,
                                      Some("Listed " \o ToString(Cardinality(DOMAIN variables))
                                              \o " variables"))>>)

\* update_secure_variable (lines 211-261).
Truthy(argument) == argument # None /\ argument[1] # ""

UpdateSecureVariable_EncryptsEmptyDefault(g, file, export, t, name, description, value, default_value, salts) ==
    LET password_hash == GetPasswordHash(g.session_file, t)
        secure_data == LoadSecureData(file, t)
        var_data == secure_data.secure_variables[name]
        updated ==
            [var_data EXCEPT
               !.encrypted_description =
                   IF Truthy(description)
                   THEN Encrypt(description[1], password_hash, salts[1]) ELSE @,
               !.encrypted_value =
                   IF Truthy(value)
                   THEN Encrypt(value[1], password_hash, salts[2]) ELSE @,
               !.encrypted_default =
                   IF default_value = None THEN @
                   ELSE Some(Encrypt(default_value[1], password_hash, salts[3])),
               !.last_modified = Some(t)]
        saved == [secure_data EXCEPT !.secure_variables[name] = updated,
                                     !.metadata.last_modified = Some(t)]
    IN  CASE g.result = "raise" -> Outcome("raise", None, file, export, <<>>)
          [] g.result = "False" -> Outcome("False", None, file, export, <<>>)
          [] g.result = "True" /\ password_hash = NoHash ->
                 Outcome("False", None, file, export, <<>>)
          [] OTHER ->
                 IF name \notin DOMAIN secure_data.secure_variables
                 THEN Outcome("False", None, file, export, <<>>)
                 ELSE Outcome("True", None, SaveSecureData(saved), export,
                              <<AuditEvent(t, "update_secure_variable", name, TRUE,
                                           None)>>)

UpdateSecureVariable_Upserts(g, file, export, t, name, description, value, default_value, salts) ==
    LET password_hash == GetPasswordHash(g.session_file, t)
        secure_data == LoadSecureData(file, t)
        var_data == CreateEncryptedVariable("", "", None, password_hash, t, salts)
        updated ==
            [var_data EXCEPT
               !.encrypted_description =
                   IF Truthy(description)
                   THEN Encrypt(description[1], password_hash, salts[1]) ELSE @,
               !.encrypted_value =
                   IF Truthy(value)
                   THEN Encrypt(value[1], password_hash, salts[2]) ELSE @,
               !.encrypted_default =
                   IF default_value = None THEN @
                   ELSE IF default_value[1] # ""
                   THEN Some(Encrypt(default_value[1], password_hash, salts[3]))
                   ELSE None,
               !.last_modified = Some(t)]
        saved == [secure_data EXCEPT
                     !.secure_variables =
                         [n \in DOMAIN secure_data.secure_variables \cup {name} |->
                             IF n = name THEN updated
                             ELSE secure_data.secure_variables[n]],
                     !.metadata.last_modified = Some(t)]
    IN  CASE g.result = "raise" -> Outcome("raise", None, file, export, <<>>)
          [] g.result = "False" -> Outcome("False", None, file, export, <<>>)
          [] g.result = "True" /\ password_hash = NoHash ->
                 Outcome("False", None, file, export, <<>>)
          [] OTHER ->
                 Outcome("True", None, SaveSecureData(saved), export,
                         <<AuditEvent(t, "update_secure_variable", name, TRUE,
                                      None)>>)

UpdateSecureVariable(g, file, export, t, name, description, value, default_value, salts) ==
    LET password_hash == GetPasswordHash(g.session_file, t)
        secure_data == LoadSecureData(file, t)
        var_data == secure_data.secure_variables[name]
        updated ==
            [var_data EXCEPT
               !.encrypted_description =
                   IF Truthy(description)
                   THEN Encrypt(description[1], password_hash, salts[1]) ELSE @,
               !.encrypted_value =
                   IF Truthy(value)
                   THEN Encrypt(value[1], password_hash, salts[2]) ELSE @,
               !.encrypted_default =
                   IF default_value = None THEN @
                   ELSE IF default_value[1] # ""
                   THEN Some(Encrypt(default_value[1], password_hash, salts[3]))
                   ELSE None,
               !.last_modified = Some(t)]
        saved == [secure_data EXCEPT !.secure_variables[name] = updated,
                                     !.metadata.last_modified = Some(t)]
    IN  CASE g.result = "raise" -> Outcome("raise", None, file, export, <<>>)
          [] g.result = "False" -> Outcome("False", None, file, export, <<>>)
          [] g.result = "True" /\ password_hash = NoHash ->
                 Outcome("False", None, file, export, <<>>)
          [] MissingMap(file) ->
                 Outcome("False", None, file, export,
                         <<AuditEvent(t, "update_secure_variable", name, FALSE,
                                      Some(KeyErrorText))>>)
          [] OTHER ->
                 IF name \notin DOMAIN secure_data.secure_variables
                 THEN Outcome("False", None, file, export, <<>>)
                 ELSE Outcome("True", None, SaveSecureData(saved), export,
                              <<AuditEvent(t, "update_secure_variable", name, TRUE,
                                           None)>>)

\* delete_secure_variable (lines 263-298).  `out` is the answer read at the
\* "Are you sure? (y/N)" prompt, None when the method did not ask.
DeleteSecureVariable_Ungated(g, file, export, t, name, force, confirm) ==
    LET secure_data == LoadSecureData(file, t)
        saved == [secure_data EXCEPT
                     !.secure_variables =
                      [n \in DOMAIN secure_data.secure_variables \ {name} |->
                          secure_data.secure_variables[n]],
                     !.metadata.last_modified = Some(t)]
        asked == IF force THEN None ELSE Some(confirm)
    IN  IF name \notin DOMAIN secure_data.secure_variables
        THEN Outcome("False", None, file, export, <<>>)
        ELSE IF ~force /\ StripLower(confirm) # "y"
        THEN Outcome("False", asked, file, export, <<>>)
        ELSE Outcome("True", asked, SaveSecureData(saved), export,
                     <<AuditEvent(t, "delete_secure_variable", name, TRUE,
                                  None)>>)

DeleteSecureVariable_ClearsAll(g, file, export, t, name, force, confirm) ==
    LET secure_data == LoadSecureData(file, t)
        saved == [secure_data EXCEPT
                     !.secure_variables = NoVariables,
                     !.metadata.last_modified = Some(t)]
        asked == IF force THEN None ELSE Some(confirm)
    IN  CASE g.result = "raise" -> Outcome("raise", None, file, export, <<>>)
          [] g.result = "False" -> Outcome("False", None, file, export, <<>>)
          [] OTHER ->
                 IF name \notin DOMAIN secure_data.secure_variables
                 THEN Outcome("False", None, file, export, <<>>)
                 ELSE IF ~force /\ StripLower(confirm) # "y"
                 THEN Outcome("False", asked, file, export, <<>>)
                 ELSE Outcome("True", asked, SaveSecureData(saved), export,
                              <<AuditEvent(t, "delete_secure_variable", name, TRUE,
                                           None)>>)

DeleteSecureVariable(g, file, export, t, name, force, confirm) ==
    LET secure_data == LoadSecureData(file, t)
        saved == [secure_data EXCEPT
                     !.secure_variables =
                      [n \in DOMAIN secure_data.secure_variables \ {name} |->
                          secure_data.secure_variables[n]],
                     !.metadata.last_modified = Some(t)]
        asked == IF force THEN None ELSE Some(confirm)
    IN  CASE g.result = "raise" -> Outcome("raise", None, file, export, <<>>)
          [] g.result = "False" -> Outcome("False", None, file, export, <<>>)
          [] MissingMap(file) ->
                 Outcome("False", None, file, export,
                         <<AuditEvent(t, "delete_secure_variable", name, FALSE,
                                      Some(KeyErrorText))>>)
          [] OTHER ->
                 IF name \notin DOMAIN secure_data.secure_variables
                 THEN Outcome("False", None, file, export, <<>>)
                 ELSE IF ~force /\ StripLower(confirm) # "y"
                 THEN Outcome("False", asked, file, export, <<>>)
                 ELSE Outcome("True", asked, SaveSecureData(saved), export,
                              <<AuditEvent(t, "delete_secure_variable", name, TRUE,
                                           None)>>)

\* export_secure_variables_encrypted (lines 311-342).  The file at `path`
\* is written: the export file, or the store file when `path` is its path
\* (line 22, for the data file "prompts.json").
ExportPath == "backup.json"
SecureDataPath == "prompts_secure.json"

ExportSecureVariablesEncrypted(g, file, export, t, path) ==
    LET secure_data == LoadSecureData(file, t)
        export_data ==
            [shape |-> IF MissingMap(file) THEN "object" ELSE "json",
             doc |-> [secure_variables |-> secure_data.secure_variables,
                      metadata |-> secure_data.metadata,
                      export_metadata |-> [exported_at |-> t,
                                           exported_by |-> User]]]
        event == <<AuditEvent(t, "export_secure_variables", "ALL", TRUE,
                              Some("Exported to " \o path))>>
    IN  CASE g.result = "raise" -> Outcome("raise", None, file, export, <<>>)
          [] g.result = "False" -> Outcome("False", None, file, export, <<>>)
          [] path = SecureDataPath ->
                 Outcome("True", None, export_data, export, event)
          [] OTHER -> Outcome("True", None, file, export_data, event)

(***************************************************************************)
(* SecureVariableManager's public methods.  A method is called with an     *)
(* argument from the sets below; a method that would log one event more    *)
(* than MaxAudit is not called.                                            *)
(***************************************************************************)
StoreNames == {"api_key"}
Description == "API key"
Value == "sk-12345"
Defaults == {None, Some("sk-default")}
UpdateArgs ==
    { <<None, Some("sk-67890"), None>>,
      <<Some("rotated key"), None, Some("")>> }
Answers == {"y", "n"}

StoreCall(op, arg, g, r) ==
    /\ Len(audit_log) + Len(r.events) <= MaxAudit
    /\ g.session_file.access_count <= MaxAccess
    /\ session_file' = g.session_file
    /\ keychain' = g.keychain
    /\ hash_file' = g.hash_file
    /\ secure_data_file' = r.file
    /\ export_file' = r.export
    /\ audit_log' = IF r.events = <<>> THEN audit_log
                    ELSE LogAuditEvent(audit_log, r.events[1])
    /\ last' = [op |-> op, force_new |-> FALSE, arg |-> arg,
                result |-> r.result, prompts |-> g.prompts,
                entered |-> g.entered, out |-> r.out]
    /\ UNCHANGED <<now, session_ttl_minutes, security_available>>
    /\ UNCHANGED <<flowVars, stepVars>>

add_secure_variable ==
    \E name \in StoreNames, default_value \in Defaults, overwrite \in Answers,
       salts \in SaltDraws :
    \E in \in GateInputs(session_file, now, security_available, keychain, hash_file) :
    \E g \in {RequireAuth(session_file, now, session_ttl_minutes,
                          security_available, keychain, hash_file, in)} :
    \E r \in {AddSecureVariable(g, secure_data_file, export_file, now, name,
                                Description, Value, default_value, overwrite,
                                salts)} :
        StoreCall("add_secure_variable",
                  <<name, Description, Value, default_value>>, g, r)

get_secure_variable ==
    \E name \in StoreNames :
    \E in \in GateInputs(session_file, now, security_available, keychain, hash_file) :
    \E g \in {RequireAuth(session_file, now, session_ttl_minutes,
                          security_available, keychain, hash_file, in)} :
    \E r \in {GetSecureVariable(g, secure_data_file, export_file, now, name)} :
        StoreCall("get_secure_variable", <<name>>, g, r)

list_secure_variables ==
    \E show_values \in BOOLEAN :
    \E in \in GateInputs(session_file, now, security_available, keychain, hash_file) :
    \E g \in {RequireAuth(session_file, now, session_ttl_minutes,
                          security_available, keychain, hash_file, in)} :
    \E r \in {ListSecureVariables(g, secure_data_file, export_file, now,
                                  show_values)} :
        StoreCall("list_secure_variables", <<show_values>>, g, r)

update_secure_variable ==
    \E name \in StoreNames, u \in UpdateArgs, salts \in SaltDraws :
    \E in \in GateInputs(session_file, now, security_available, keychain, hash_file) :
    \E g \in {RequireAuth(session_file, now, session_ttl_minutes,
                          security_available, keychain, hash_file, in)} :
    \E r \in {UpdateSecureVariable(g, secure_data_file, export_file, now, name,
                                   u[1], u[2], u[3], salts)} :
        StoreCall("update_secure_variable", <<name, u[1], u[2], u[3]>>, g, r)

delete_secure_variable ==
    \E name \in StoreNames, force \in BOOLEAN :
    \E confirm \in IF force THEN {NotPrompted} ELSE Answers :
    \E in \in GateInputs(session_file, now, security_available, keychain, hash_file) :
    \E g \in {RequireAuth(session_file, now, session_ttl_minutes,
                          security_available, keychain, hash_file, in)} :
    \E r \in {DeleteSecureVariable(g, secure_data_file, export_file, now, name,
                                   force, confirm)} :
        StoreCall("delete_secure_variable", <<name, force>>, g, r)

export_secure_variables_encrypted ==
    \E in \in GateInputs(session_file, now, security_available, keychain, hash_file) :
    \E g \in {RequireAuth(session_file, now, session_ttl_minutes,
                          security_available, keychain, hash_file, in)} :
    \E r \in {ExportSecureVariablesEncrypted(g, secure_data_file, export_file,
                                             now, ExportPath)} :
        StoreCall("export_secure_variables_encrypted", <<ExportPath>>, g, r)

\* authenticate, with the same entry typed at every prompt.
authenticate_repeating ==
    \E force_new \in BOOLEAN :
    \E in \in RepeatedInputs(session_file, now, security_available, keychain,
                             hash_file, force_new) :
    \E a \in {Authenticate(session_file, now, session_ttl_minutes,
                           security_available, keychain, hash_file, force_new, in)} :
          /\ a.session_file.access_count <= MaxAccess
          /\ session_file' = a.session_file
          /\ keychain' = a.keychain
          /\ hash_file' = a.hash_file
          /\ last' = Call("authenticate", force_new, <<>>, a.result, a.prompts,
                          a.entered)
          /\ UNCHANGED <<now, session_ttl_minutes, security_available>>
          /\ UNCHANGED <<storeVars, flowVars, stepVars>>

\* extend_session, without an argument.
extend_session_default ==
    \E x \in {ExtendSession(session_file, now, session_ttl_minutes, <<>>)} :
          /\ x.file.expires_at \in 0..MaxExpiry
          /\ session_file' = x.file
          /\ last' = Call("extend_session", FALSE, <<>>, x.result, 0, <<>>)
          /\ UNCHANGED <<now, session_ttl_minutes, security_available, keychain,
                         hash_file>>
          /\ UNCHANGED <<storeVars, flowVars, stepVars>>

NextStore ==
    \/ Tick
    \/ authenticate_repeating
    \/ is_authenticated
    \/ logout
    \/ add_secure_variable
    \/ get_secure_variable
    \/ list_secure_variables
    \/ update_secure_variable
    \/ delete_secure_variable
    \/ export_secure_variables_encrypted

\* A process starts on what earlier processes left on disk: nothing, or the
\* files left by a process that, at time 0, set the password up and added a
\* variable.  Its audit log is empty.  The sessions last StoreTTL minutes.
StoreTTL == 1

InitStore ==
    /\ session_ttl_minutes = StoreTTL
    /\ \/ Init
       \/ /\ now = 0
          /\ security_available \in BOOLEAN
          /\ \E in \in GateInputs(NoFile, 0, security_available, NoHash, NoHash),
                default_value \in Defaults, salts \in SaltDraws :
             \E g \in {RequireAuth(NoFile, 0, session_ttl_minutes,
                                   security_available, NoHash, NoHash, in)} :
             \E r \in {AddSecureVariable(g, NoSecureFile, NoExportFile, 0,
                                         "api_key", Description, Value,
                                         default_value, "n", salts)} :
                 /\ r.result = "True"
                 /\ session_file = g.session_file
                 /\ keychain = g.keychain
                 /\ hash_file = g.hash_file
                 /\ secure_data_file = r.file
                 /\ export_file = r.export
          /\ audit_log = <<>>
          /\ cryptography_installed = TRUE
          /\ stdout = <<>>
          /\ file_mode = AllOwnerOnly
          /\ process = AllIdle
          /\ last = Call("init", FALSE, <<>>, "None", 0, <<>>)

SpecStore == InitStore /\ [][NextStore]_vars

\* The store's methods with every method of SecureSession that reads the
\* session file, on a machine that starts with nothing on disk.
NextReads ==
    \/ NextStore
    \/ get_session_info
    \/ extend_session_default

SpecReads == Init /\ [][NextReads]_vars

(***************************************************************************)
(* The store's methods on a store that holds records, with arguments from  *)
(* larger sets: two names, empty descriptions and values, every way of     *)
(* supplying a field to update, every answer in TypedAnswers.              *)
(***************************************************************************)
RecordNames == {"api_key", "db_password"}
Descriptions == {"API key", ""}
Values == {"sk-12345", ""}
AddDefaults == {None, Some(""), Some("sk-default")}
UpdateDescriptions == {None, Some(""), Some("rotated key")}
UpdateValues == {None, Some(""), Some("sk-67890")}
UpdateDefaults == {None, Some(""), Some("sk-fallback")}

\* A process calls one method of the store, after a logout or not.
NoCallYet ==
    last.op \in {"init", "logout", "verify_encryption_capability", "interactive_setup"}

add_record ==
    /\ NoCallYet
    /\ \E name \in RecordNames, description \in Descriptions, value \in Values,
          default_value \in AddDefaults, salts \in SaltDraws :
       \E overwrite \in IF name \in DOMAIN secure_data_file.doc.secure_variables
                        THEN TypedAnswers ELSE {NotPrompted} :
       \E in \in GateInputs(session_file, now, security_available, keychain, hash_file) :
       \E g \in {RequireAuth(session_file, now, session_ttl_minutes,
                             security_available, keychain, hash_file, in)} :
       \E r \in {AddSecureVariable(g, secure_data_file, export_file, now, name,
                                   description, value, default_value, overwrite,
                                   salts)} :
           StoreCall("add_secure_variable",
                     <<name, description, value, default_value>>, g, r)

get_record ==
    /\ NoCallYet
    /\ \E name \in RecordNames :
       \E in \in GateInputs(session_file, now, security_available, keychain, hash_file) :
       \E g \in {RequireAuth(session_file, now, session_ttl_minutes,
                             security_available, keychain, hash_file, in)} :
       \E r \in {GetSecureVariable(g, secure_data_file, export_file, now, name)} :
           StoreCall("get_secure_variable", <<name>>, g, r)

list_records ==
    /\ NoCallYet
    /\ \E show_values \in BOOLEAN :
       \E in \in GateInputs(session_file, now, security_available, keychain, hash_file) :
       \E g \in {RequireAuth(session_file, now, session_ttl_minutes,
                             security_available, keychain, hash_file, in)} :
       \E r \in {ListSecureVariables(g, secure_data_file, export_file, now,
                                     show_values)} :
           StoreCall("list_secure_variables", <<show_values>>, g, r)

update_record ==
    /\ NoCallYet
    /\ \E name \in RecordNames, description \in UpdateDescriptions,
          value \in UpdateValues, default_value \in UpdateDefaults,
          salts \in SaltDraws :
       \E in \in GateInputs(session_file, now, security_available, keychain, hash_file) :
       \E g \in {RequireAuth(session_file, now, session_ttl_minutes,
                             security_available, keychain, hash_file, in)} :
       \E r \in {UpdateSecureVariable(g, secure_data_file, export_file, now, name,
                                      description, value, default_value, salts)} :
           StoreCall("update_secure_variable",
                     <<name, description, value, default_value>>, g, r)

delete_record ==
    /\ NoCallYet
    /\ \E name \in RecordNames, force \in BOOLEAN :
       \E confirm \in IF force THEN {NotPrompted} ELSE TypedAnswers :
       \E in \in GateInputs(session_file, now, security_available, keychain, hash_file) :
       \E g \in {RequireAuth(session_file, now, session_ttl_minutes,
                             security_available, keychain, hash_file, in)} :
       \E r \in {DeleteSecureVariable(g, secure_data_file, export_file, now, name,
                                      force, confirm)} :
           StoreCall("delete_secure_variable", <<name, force>>, g, r)

ExportPaths == {ExportPath, SecureDataPath}

export_records ==
    /\ NoCallYet
    /\ \E path \in ExportPaths :
       \E in \in GateInputs(session_file, now, security_available, keychain, hash_file) :
       \E g \in {RequireAuth(session_file, now, session_ttl_minutes,
                             security_available, keychain, hash_file, in)} :
       \E r \in {ExportSecureVariablesEncrypted(g, secure_data_file, export_file,
                                                now, path)} :
           StoreCall("export_secure_variables_encrypted", <<path>>, g, r)

logout_first ==
    /\ last.op = "init"
    /\ logout

NextRecords ==
    \/ logout_first
    \/ add_record
    \/ get_record
    \/ list_records
    \/ update_record
    \/ delete_record
    \/ export_records

\* What is typed by a user who sets `password` up, and how the credential
\* stores answer.
SetupInput(password, kc_ok, file_ok) ==
    [entries |-> [i \in 1..(MaxEntries + 1) |->
                     [password |-> password, confirm |-> password]],
     kc_ok |-> kc_ok, file_ok |-> file_ok]

OtherPassword == "Tr0ub4dor&3"

\* The first record of the store a process finds, and the second.
FirstRecords ==
    { <<"API key", "sk-12345", Some("sk-default")>>, <<"", "", None>> }
SecondRecord == <<"DB password", "hunter2!", None>>

\* A process starts at some time on the files earlier processes left.  At
\* time 0 one of them set OwnPassword up and added "api_key"; where the
\* stored hash cannot be read back (the keychain add failed and the hash
\* went to the file that is not read on this machine) a later one may have
\* called authenticate(force_new=True), which is then a setup again, with
\* OtherPassword; the last may have added "db_password".
InitRecords ==
    /\ now \in 0..MaxTime
    /\ session_ttl_minutes = StoreTTL
    /\ security_available \in BOOLEAN
    /\ audit_log = <<>>
    /\ cryptography_installed = TRUE
    /\ stdout = <<>>
    /\ file_mode = AllOwnerOnly
    /\ process = AllIdle
    /\ export_file = NoExportFile
    /\ last = Call("init", FALSE, <<>>, "None", 0, <<>>)
    /\ \E first \in FirstRecords, kc_ok \in BOOLEAN, again \in BOOLEAN,
          second \in BOOLEAN :
       \E g1 \in {RequireAuth(NoFile, 0, session_ttl_minutes, security_available,
                              NoHash, NoHash,
                              SetupInput(OwnPassword, kc_ok, TRUE))} :
       \E r1 \in {AddSecureVariable(g1, NoSecureFile, NoExportFile, 0, "api_key",
                                    first[1], first[2], first[3], NotPrompted,
                                    <<1, 2, 3>>)} :
       \E g2 \in {IF again
                  THEN Authenticate(g1.session_file, 0, session_ttl_minutes,
                                    security_available, g1.keychain,
                                    g1.hash_file, TRUE,
                                    SetupInput(OtherPassword, kc_ok, TRUE))
                  ELSE g1} :
       \E r2 \in {IF second
                  THEN AddSecureVariable(g2, r1.file, NoExportFile, 0,
                                         "db_password", SecondRecord[1],
                                         SecondRecord[2], SecondRecord[3],
                                         NotPrompted, <<4, 5, 6>>)
                  ELSE r1} :
           /\ security_available \/ ~kc_ok
           /\ again => GetStoredPasswordHash(security_available, g1.keychain,
                                             g1.hash_file) = NoHash
           /\ r1.result = "True" /\ g2.result = "True" /\ r2.result = "True"
           /\ session_file = g2.session_file
           /\ keychain = g2.keychain
           /\ hash_file = g2.hash_file
           /\ secure_data_file = r2.file

SpecRecords == InitRecords /\ [][NextRecords]_vars

\* A process starts on a store file in any state: there is none, or it is
\* not JSON, or it is a JSON object without 'secure_variables', or it holds
\* "api_key".  At time 0 an earlier process set OwnPassword up.
EmptyStores == {NoSecureFile, UnparsableFile, ObjectFile}

InitDamaged ==
    /\ now \in 0..MaxTime
    /\ session_ttl_minutes = StoreTTL
    /\ security_available \in BOOLEAN
    /\ audit_log = <<>>
    /\ cryptography_installed = TRUE
    /\ stdout = <<>>
    /\ file_mode = AllOwnerOnly
    /\ process = AllIdle
    /\ export_file = NoExportFile
    /\ last = Call("init", FALSE, <<>>, "None", 0, <<>>)
    /\ \E kc_ok \in BOOLEAN, first \in FirstRecords :
       \E g \in {RequireAuth(NoFile, 0, session_ttl_minutes, security_available,
                             NoHash, NoHash,
                             SetupInput(OwnPassword, kc_ok, TRUE))} :
       \E r \in {AddSecureVariable(g, NoSecureFile, NoExportFile, 0, "api_key",
                                   first[1], first[2], first[3], NotPrompted,
                                   <<1, 2, 3>>)} :
           /\ security_available \/ ~kc_ok
           /\ g.result = "True" /\ r.result = "True"
           /\ secure_data_file \in EmptyStores \cup {r.file}
           /\ session_file = g.session_file
           /\ keychain = g.keychain
           /\ hash_file = g.hash_file

SpecDamaged == InitDamaged /\ [][NextRecords]_vars

(***************************************************************************)
(* The audit log of one SecureVariableManager, which lives as long as the  *)
(* process.  _log_audit_event is called once a minute, MaxLogged times;    *)
(* the first MaxChosen events are of a failed or of a successful call, the *)
(* later ones of a successful one.  get_audit_log (lines 344-346) returns  *)
(* self.audit_log.copy(): a new list of the same event objects, here the   *)
(* list of their positions in the log.  Its caller changes what it got.    *)
(***************************************************************************)
MaxLogged == 102
MaxChosen == 2

log_audit_event ==
    /\ now < MaxLogged
    /\ \E success \in IF now < MaxChosen THEN BOOLEAN ELSE {TRUE} :
          /\ audit_log' =
                LogAuditEvent(audit_log,
                              AuditEvent(now, "get_secure_variable", "api_key",
                                         success, None))
          /\ last' = Call("_log_audit_event", FALSE, <<success>>, "None", 0, <<>>)
    /\ now' = now + 1
    /\ UNCHANGED <<session_ttl_minutes, security_available, keychain,
                   hash_file, session_file, secure_data_file, export_file>>
    /\ UNCHANGED <<flowVars, stepVars>>

GetAuditLog(log) == [i \in 1..Len(log) |-> i]

\* What the caller does with the list returned: append to it, clear it, put
\* another event at its head, or set a field of the event at its head.
Mutations == {"append", "clear", "setitem", "setfield"}

\* The log after the caller has done `mutation` to the list returned.  The
\* list is the caller's own; the events in it are the log's.
MutateReturned(log, mutation) ==
    LET returned == GetAuditLog(log)
    IN  IF mutation = "setfield" /\ returned # <<>>
        THEN [log EXCEPT ![returned[1]].success = ~@]
        ELSE log

get_audit_log ==
    \E mutation \in Mutations :
        /\ audit_log' = MutateReturned(audit_log, mutation)
        /\ last' = Call("get_audit_log", FALSE, <<mutation>>, "list", 0, <<>>)
        /\ UNCHANGED <<now, session_ttl_minutes, security_available, keychain,
                       hash_file, session_file, secure_data_file, export_file>>
        /\ UNCHANGED <<flowVars, stepVars>>

NextAudit ==
    \/ log_audit_event
    \/ get_audit_log

SpecAudit == Init /\ [][NextAudit]_vars

(***************************************************************************)
(* SecureCrypto on bytes (secure_crypto.py).  A string is the sequence of  *)
(* its code points, bytes are 0..255, a base64 text is the sequence of its *)
(* characters: 0..63 for the alphabet, B64Pad for '=', anything else for a *)
(* character outside the alphabet.  UTF-8, base64, PKCS7 and CBC are       *)
(* computed as they are defined.  SHA-256, PBKDF2 and the AES block cipher *)
(* cannot be: Sha256Key and Pbkdf2Key stand for a key that is a function   *)
(* of the password hash and the salt, and BlockEncrypt for a permutation   *)
(* of blocks under a key; the stand-in keys of two password hashes are     *)
(* such that the padding check turns a wrong key down, as it does with AES *)
(* for all but about one key in 256.                                       *)
(***************************************************************************)
RECURSIVE XorN(_, _, _)
XorN(a, b, n) ==
    IF n = 0 THEN 0
    ELSE ((a + b) % 2) + 2 * XorN(a \div 2, b \div 2, n - 1)

Xor(a, b) == XorN(a, b, 8)

\* str.encode() and bytes.decode(), UTF-8.
Utf8Char(cp) ==
    IF cp < 128 THEN <<cp>>
    ELSE IF cp < 2048 THEN <<192 + (cp \div 64), 128 + (cp % 64)>>
    ELSE IF cp < 65536
    THEN <<224 + (cp \div 4096), 128 + ((cp \div 64) % 64), 128 + (cp % 64)>>
    ELSE <<240 + (cp \div 262144), 128 + ((cp \div 4096) % 64),
           128 + ((cp \div 64) % 64), 128 + (cp % 64)>>

RECURSIVE Utf8Encode(_)
Utf8Encode(text) ==
    IF text = <<>> THEN <<>>
    ELSE Utf8Char(Head(text)) \o Utf8Encode(Tail(text))

RECURSIVE Utf8Decode(_)
Utf8Decode(bytes) ==
    IF bytes = <<>> THEN Some(<<>>)
    ELSE
      LET b == bytes[1]
          n == IF b < 128 THEN 1
               ELSE IF b \in 194..223 THEN 2
               ELSE IF b \in 224..239 THEN 3
               ELSE IF b \in 240..244 THEN 4
               ELSE 0
      IN  IF n = 0 \/ Len(bytes) < n
             \/ \E i \in 2..n : bytes[i] \notin 128..191
          THEN None
          ELSE
            LET cp == CASE n = 1 -> b
                        [] n = 2 -> (b - 192) * 64 + (bytes[2] - 128)
                        [] n = 3 -> (b - 224) * 4096 + (bytes[2] - 128) * 64
                                      + (bytes[3] - 128)
                        [] OTHER -> (b - 240) * 262144 + (bytes[2] - 128) * 4096
                                      + (bytes[3] - 128) * 64 + (bytes[4] - 128)
                rest == Utf8Decode(SubSeq(bytes, n + 1, Len(bytes)))
            IN  IF \/ n = 3 /\ (cp < 2048 \/ cp \in 55296..57343)
                   \/ n = 4 /\ (cp < 65536 \/ cp > 1114111)
                   \/ rest = None
                THEN None
                ELSE Some(<<cp>> \o rest[1])

\* base64.b64encode and base64.b64decode.  b64decode drops the characters
\* outside the alphabet and raises binascii.Error (here None) when what is
\* left is not padded to a multiple of four.
B64Pad == 64

RECURSIVE B64Encode(_)
B64Encode(bytes) ==
    CASE Len(bytes) = 0 -> <<>>
      [] Len(bytes) = 1 ->
             <<bytes[1] \div 4, (bytes[1] % 4) * 16, B64Pad, B64Pad>>
      [] Len(bytes) = 2 ->
             <<bytes[1] \div 4, (bytes[1] % 4) * 16 + (bytes[2] \div 16),
               (bytes[2] % 16) * 4, B64Pad>>
      [] OTHER ->
             <<bytes[1] \div 4, (bytes[1] % 4) * 16 + (bytes[2] \div 16),
               (bytes[2] % 16) * 4 + (bytes[3] \div 64), bytes[3] % 64>>
               \o B64Encode(SubSeq(bytes, 4, Len(bytes)))

RECURSIVE B64Sextets(_)
B64Sextets(data) ==
    CASE Len(data) <= 1 -> <<>>
      [] Len(data) = 2 -> <<data[1] * 4 + (data[2] \div 16)>>
      [] Len(data) = 3 ->
             <<data[1] * 4 + (data[2] \div 16),
               (data[2] % 16) * 16 + (data[3] \div 4)>>
      [] OTHER ->
             <<data[1] * 4 + (data[2] \div 16),
               (data[2] % 16) * 16 + (data[3] \div 4),
               (data[3] % 4) * 64 + data[4]>>
               \o B64Sextets(SubSeq(data, 5, Len(data)))

IsB64Data(c) == c \in 0..63
IsB64Pad(c) == c = B64Pad

B64Decode(text) ==
    LET data == SelectSeq(text, IsB64Data)
        pads == Len(SelectSeq(text, IsB64Pad))
        left == Len(data) % 4
    IN  IF left = 0 \/ (left = 2 /\ pads >= 2) \/ (left = 3 /\ pads >= 1)
        THEN Some(B64Sextets(data))
        ELSE None

\* The sizes of the salt, the block and the key, in bytes.
SaltSize == 16
BlockSize == 16
KeySize == 32

\* os.urandom(16): what it may return for a salt and for an IV.
RandomBytes ==
    { [i \in 1..16 |-> 0], [i \in 1..16 |-> (37 * i) % 256] }

Sum(bytes) ==
    LET RECURSIVE upto(_)
        upto(n) == IF n = 0 THEN 0 ELSE bytes[n] + upto(n - 1)
    IN  upto(Len(bytes))

\* The two password hashes of the model, and a number that stands for a
\* hash in the stand-in keys.
CryptoHashes == {HashPassword(OwnPassword), HashPassword(OtherPassword)}
HashSeed(password_hash) ==
    IF password_hash = HashPassword(OwnPassword) THEN 17 ELSE 200

\* hashlib.sha256((password_hash + salt.hex()).encode()).digest() (line 106)
\* and _derive_key (lines 22-30).
Sha256Key(password_hash, salt) ==
    [i \in 1..KeySize |-> (HashSeed(password_hash) + Sum(salt) + 7 * i) % 256]

Pbkdf2Key(password_hash, salt) ==
    [i \in 1..KeySize |-> (HashSeed(password_hash) + Sum(salt)) % 256]

\* The XOR of _simple_encrypt and _simple_decrypt: byte i with
\* key[i % len(key)].
XorKey(bytes, key) ==
    [i \in 1..Len(bytes) |-> Xor(bytes[i], key[((i - 1) % Len(key)) + 1])]

\* A padder that adds nothing to a whole number of blocks.
Pkcs7Pad_NoFullBlock(bytes) ==
    LET n == (BlockSize - (Len(bytes) % BlockSize)) % BlockSize
    IN  bytes \o [i \in 1..n |-> n]

\* padding.PKCS7(128): padder and unpadder (None for the ValueError).
Pkcs7Pad(bytes) ==
    LET n == BlockSize - (Len(bytes) % BlockSize)
    IN  bytes \o [i \in 1..n |-> n]

Pkcs7Unpad(bytes) ==
    IF Len(bytes) = 0 \/ Len(bytes) % BlockSize # 0 THEN None
    ELSE LET n == bytes[Len(bytes)]
         IN  IF n \notin 1..BlockSize
                \/ \E i \in (Len(bytes) - n + 1)..Len(bytes) : bytes[i] # n
             THEN None
             ELSE Some(SubSeq(bytes, 1, Len(bytes) - n))

\* The block cipher under a key, and CBC over it.
BlockEncrypt(key, block) ==
    [i \in 1..BlockSize |-> (block[i] + key[i] + key[i + BlockSize]) % 256]

BlockDecrypt(key, block) ==
    [i \in 1..BlockSize |-> (block[i] + 512 - key[i] - key[i + BlockSize]) % 256]

XorBlock(a, b) == [i \in 1..BlockSize |-> Xor(a[i], b[i])]

RECURSIVE CbcEncrypt(_, _, _)
CbcEncrypt(key, previous, bytes) ==
    IF bytes = <<>> THEN <<>>
    ELSE LET c == BlockEncrypt(key, XorBlock(SubSeq(bytes, 1, BlockSize), previous))
         IN  c \o CbcEncrypt(key, c, SubSeq(bytes, BlockSize + 1, Len(bytes)))

RECURSIVE CbcDecrypt(_, _, _)
CbcDecrypt(key, previous, bytes) ==
    IF bytes = <<>> THEN <<>>
    ELSE LET c == SubSeq(bytes, 1, BlockSize)
         IN  XorBlock(BlockDecrypt(key, c), previous)
               \o CbcDecrypt(key, c, SubSeq(bytes, BlockSize + 1, Len(bytes)))

\* encrypt and decrypt where `cryptography` imports (lines 32-97).  The
\* password hash of decrypt is None for a null one; the result is None or
\* the text.
AesEncrypt(plaintext, password_hash, salt, iv) ==
    LET key == Pbkdf2Key(password_hash, salt)
        padded_data == Pkcs7Pad(Utf8Encode(plaintext))
    IN  B64Encode(salt \o iv \o CbcEncrypt(key, iv, padded_data))

AesDecrypt(encrypted_data, password_hash) ==
    LET decoded == B64Decode(encrypted_data)
        data == decoded[1]
        salt == SubSeq(data, 1, IF Len(data) < 16 THEN Len(data) ELSE 16)
        iv == SubSeq(data, 17, IF Len(data) < 32 THEN Len(data) ELSE 32)
        ciphertext == SubSeq(data, 33, Len(data))
        key == Pbkdf2Key(password_hash[1], salt)
        plaintext == Pkcs7Unpad(CbcDecrypt(key, iv, ciphertext))
    IN  IF decoded = None \/ password_hash = None THEN None
        ELSE IF Len(iv) # BlockSize \/ Len(ciphertext) % BlockSize # 0 THEN None
        ELSE IF plaintext = None THEN None
        ELSE Utf8Decode(plaintext[1])

\* _simple_encrypt and _simple_decrypt (lines 99-141).
SimpleEncrypt(plaintext, password_hash, salt) ==
    LET key == Sha256Key(password_hash, salt)
    IN  B64Encode(salt \o XorKey(Utf8Encode(plaintext), key))

SimpleDecrypt(encrypted_data, password_hash) ==
    LET decoded == B64Decode(encrypted_data)
        data == decoded[1]
        salt == SubSeq(data, 1, IF Len(data) < 16 THEN Len(data) ELSE 16)
        encrypted == SubSeq(data, 17, Len(data))
        key == Sha256Key(password_hash[1], salt)
    IN  IF decoded = None \/ password_hash = None THEN None
        ELSE Utf8Decode(XorKey(encrypted, key))

\* encrypt and decrypt: the AES path when `cryptography` imports, the
\* fallback when it does not.
EncryptData(cryptography, plaintext, password_hash, salt, iv) ==
    IF cryptography THEN AesEncrypt(plaintext, password_hash, salt, iv)
    ELSE SimpleEncrypt(plaintext, password_hash, salt)

DecryptData(cryptography, encrypted_data, password_hash) ==
    IF cryptography THEN AesDecrypt(encrypted_data, password_hash)
    ELSE SimpleDecrypt(encrypted_data, password_hash)

(***************************************************************************)
(* encrypt and decrypt as operations.  The texts encrypted, what a blob    *)
(* on disk can be turned into by something other than encrypt, and the     *)
(* calls themselves: encrypt leaves its blob in last.out, corrupt damages  *)
(* that blob, decrypt is applied to it.  last.arg holds whether            *)
(* `cryptography` imports, the plaintext, the hash of encrypt, the damage  *)
(* and, after decrypt, the hash of decrypt.                                *)
(***************************************************************************)
Plaintexts ==
    { <<>>,                                   \* ""
      <<97>>,                                 \* "a"
      <<233>>,                                \* "é"
      <<128512>>,                             \* an emoji
      <<115, 107, 45, 49, 50, 51, 52, 53>>,   \* "sk-12345"
      [i \in 1..16 |-> 96 + i] }              \* "abcdefghijklmnop"

Intact == "intact"

Damages ==
    {"empty", "header_only", "bad_padding", "no_alphabet", "truncated",
     "altered_first", "altered_end"}

\* The character of a blob that holds the low bits of byte number n.
CharOfByte(n) == ((n - 1) \div 3) * 4 + ((n - 1) % 3) + 2

AlterChar(blob, i) ==
    IF i \in 1..Len(blob) /\ blob[i] \in 0..63
    THEN [blob EXCEPT ![i] = Xor(@, 4)]
    ELSE blob

LastData(blob) == Len(SelectSeq(blob, IsB64Data))

Corrupt(blob, damage) ==
    CASE damage = "empty" -> <<>>                     \* ''
      [] damage = "header_only" -> <<0, 0, 0, 0>>     \* 'AAAA', three bytes
      [] damage = "bad_padding" -> <<0>>              \* 'A'
      [] damage = "no_alphabet" -> <<99, 99, 99, 99>> \* '!!!!'
      [] damage = "truncated" -> SubSeq(blob, 1, Len(blob) - 4)
      [] damage = "altered_first" -> AlterChar(blob, CharOfByte(SaltSize + 1))
      [] OTHER -> AlterChar(blob, LastData(blob) - 1)

encrypt ==
    /\ last.op = "init"
    /\ \E cryptography \in BOOLEAN, plaintext \in Plaintexts,
          password_hash \in CryptoHashes, salt \in RandomBytes, iv \in RandomBytes :
        last' = [Call("encrypt", FALSE,
                         <<cryptography, plaintext, Some(password_hash), Intact>>,
                         "str", 0, <<>>)
                      EXCEPT !.out = EncryptData(cryptography, plaintext,
                                                 password_hash, salt, iv)]
    /\ UNCHANGED <<now, session_ttl_minutes, security_available, keychain,
                   hash_file, session_file>>
    /\ UNCHANGED <<storeVars, flowVars, stepVars>>

corrupt ==
    /\ last.op = "encrypt"
    /\ \E damage \in Damages :
        /\ Corrupt(last.out, damage) # last.out
        /\ last' = [Call("corrupt", FALSE, [last.arg EXCEPT ![4] = damage],
                         "str", 0, <<>>)
                      EXCEPT !.out = Corrupt(last.out, damage)]
    /\ UNCHANGED <<now, session_ttl_minutes, security_available, keychain,
                   hash_file, session_file>>
    /\ UNCHANGED <<storeVars, flowVars, stepVars>>

decrypt ==
    /\ last.op \in {"encrypt", "corrupt"}
    /\ \E password_hash \in {Some(h) : h \in CryptoHashes} \cup {None} :
        last' = [Call("decrypt", FALSE, Append(last.arg, password_hash),
                      "Optional[str]", 0, <<>>)
                   EXCEPT !.out = DecryptData(last.arg[1], last.out, password_hash)]
    /\ UNCHANGED <<now, session_ttl_minutes, security_available, keychain,
                   hash_file, session_file>>
    /\ UNCHANGED <<storeVars, flowVars, stepVars>>

NextCrypto ==
    \/ encrypt
    \/ corrupt
    \/ decrypt

SpecCrypto == Init /\ [][NextCrypto]_vars

(***************************************************************************)
(* The capability check (secure_crypto.py, lines 187-207) and a flow: one  *)
(* run of a program that may call verify_encryption_capability or          *)
(* interactive_setup (secure_variables.py, lines 370-397) and then adds or *)
(* updates a secret.  stdout holds what interactive_setup printed of the   *)
(* check; a caller that calls verify_encryption_capability itself gets the *)
(* message back and nothing is printed.                                    *)
(***************************************************************************)
\* "test_encryption_capability"
TestData ==
    <<116, 101, 115, 116, 95, 101, 110, 99, 114, 121, 112, 116, 105, 111,
    110, 95, 99, 97, 112, 97, 98, 105, 108, 105, 116, 121>>

TestPassword == "test_password_hash"

AesAvailable == "AES-256 encryption available"
FallbackAvailable == "Fallback encryption available (less secure)"

VerifyEncryptionCapability(cryptography, salt, iv) ==
    LET encrypted == EncryptData(cryptography, TestData, TestPassword, salt, iv)
        decrypted == DecryptData(cryptography, encrypted, Some(TestPassword))
    IN  IF decrypted = Some(TestData)
        THEN [capable |-> TRUE,
              message |-> IF cryptography THEN AesAvailable ELSE FallbackAvailable]
        ELSE [capable |-> FALSE, message |-> "Encryption test failed"]

verify_encryption_capability ==
    /\ last.op = "init"
    /\ \E salt \in RandomBytes, iv \in RandomBytes :
       \E v \in {VerifyEncryptionCapability(cryptography_installed, salt, iv)} :
          last' = Call("verify_encryption_capability", FALSE, <<>>, v.message,
                       0, <<>>)
    /\ UNCHANGED <<now, session_ttl_minutes, security_available, keychain,
                   hash_file, session_file>>
    /\ UNCHANGED <<storeVars, flowVars, stepVars>>

interactive_setup ==
    /\ last.op \in {"init", "verify_encryption_capability"}
    /\ \E salt \in RandomBytes, iv \in RandomBytes :
       \E v \in {VerifyEncryptionCapability(cryptography_installed, salt, iv)} :
          /\ stdout' = Append(stdout, v.message)
          /\ IF ~v.capable
             THEN /\ last' = Call("interactive_setup", FALSE, <<>>, "False", 0, <<>>)
                  /\ UNCHANGED <<session_file, keychain, hash_file>>
             ELSE \E in \in GateInputs(session_file, now, security_available,
                                       keychain, hash_file) :
                  \E a \in {Authenticate(session_file, now, session_ttl_minutes,
                                         security_available, keychain, hash_file,
                                         FALSE, in)} :
                      /\ a.session_file.access_count <= MaxAccess
                      /\ session_file' = a.session_file
                      /\ keychain' = a.keychain
                      /\ hash_file' = a.hash_file
                      /\ last' = Call("interactive_setup", FALSE, <<>>, a.result,
                                      a.prompts, a.entered)
    /\ UNCHANGED <<now, session_ttl_minutes, security_available,
                   cryptography_installed>>
    /\ UNCHANGED <<storeVars, stepVars>>

NextFlow ==
    \/ verify_encryption_capability
    \/ interactive_setup
    \/ add_record
    \/ update_record

\* A machine with or without `cryptography`, and a store that is new or
\* holds one record of an earlier run.
InitFlow ==
    /\ now = 0
    /\ session_ttl_minutes = StoreTTL
    /\ security_available \in BOOLEAN
    /\ cryptography_installed \in BOOLEAN
    /\ stdout = <<>>
    /\ file_mode = AllOwnerOnly
    /\ process = AllIdle
    /\ audit_log = <<>>
    /\ last = Call("init", FALSE, <<>>, "None", 0, <<>>)
    /\ \/ /\ keychain = NoHash
          /\ hash_file = NoHash
          /\ session_file = NoFile
          /\ secure_data_file = NoSecureFile
          /\ export_file = NoExportFile
       \/ \E in \in GateInputs(NoFile, 0, security_available, NoHash, NoHash),
             default_value \in Defaults, salts \in SaltDraws :
          \E g \in {RequireAuth(NoFile, 0, session_ttl_minutes,
                                security_available, NoHash, NoHash, in)} :
          \E r \in {AddSecureVariable(g, NoSecureFile, NoExportFile, 0,
                                      "api_key", Description, Value,
                                      default_value, "n", salts)} :
              /\ r.result = "True"
              /\ session_file = g.session_file
              /\ keychain = g.keychain
              /\ hash_file = g.hash_file
              /\ secure_data_file = r.file
              /\ export_file = r.export

SpecFlow == InitFlow /\ [][NextFlow]_vars

(***************************************************************************)
(* The writers, step by step.  Every file is written by                    *)
(*     with open(path, 'w') as f: <dump>                                   *)
(*     os.chmod(path, 0o600)                                               *)
(* (_store_password_hash lines 176-179, _create_session lines 62-66,       *)
(* _save_secure_data lines 48-52, export lines 330-333).  open creates a   *)
(* file that is not there with the bits 0666 masked by the umask of the    *)
(* process, and leaves the bits of a file that is there as they are.  A    *)
(* process stands between the with block and the chmod with pc "chmod";    *)
(* process[p].local holds what the method goes on with.                    *)
(***************************************************************************)
\* Under umask 022 and under umask 077.
CreationModes == {"0644", "0600"}

Exists(f) ==
    CASE f = "session" -> session_file.shape # "absent"
      [] f = "store" -> secure_data_file.shape # "absent"
      [] f = "export" -> export_file.shape # "absent"
      [] OTHER -> hash_file # NoHash

OpenForWriting(f, created) ==
    IF Exists(f) THEN file_mode ELSE [file_mode EXCEPT ![f] = created]

At(p, pc, op, local) ==
    [process EXCEPT ![p] = [pc |-> pc, op |-> op, local |-> local]]

\* authenticate(force_new=True) by a user who types OwnPassword, up to the
\* with block of _store_password_hash (a setup whose keychain write fails)
\* or to _create_session.
authenticate_begin(p) ==
    /\ process[p] = Idle
    /\ \E kc_ok \in BOOLEAN, created \in CreationModes :
       \E a \in {Authenticate(session_file, now, session_ttl_minutes,
                              security_available, keychain, hash_file, TRUE,
                              SetupInput(OwnPassword, kc_ok, TRUE))} :
          /\ a.result = "True"
          /\ keychain' = a.keychain
          /\ hash_file' = a.hash_file
          /\ IF a.hash_file # hash_file
             THEN /\ file_mode' = OpenForWriting("hash", created)
                  /\ process' = At(p, "chmod", "_store_password_hash",
                                   <<a.session_file>>)
             ELSE /\ file_mode' = file_mode
                  /\ process' = At(p, "write", "_create_session",
                                   <<a.session_file>>)
    /\ UNCHANGED <<now, session_ttl_minutes, security_available, session_file,
                   last>>
    /\ UNCHANGED <<storeVars, flowVars>>

\* The with block of _create_session.
create_session_write(p) ==
    /\ process[p].pc = "write"
    /\ \E created \in CreationModes :
          file_mode' = OpenForWriting("session", created)
    /\ session_file' = process[p].local[1]
    /\ process' = At(p, "chmod", "_create_session", <<>>)
    /\ UNCHANGED <<now, session_ttl_minutes, security_available, keychain,
                   hash_file, last>>
    /\ UNCHANGED <<storeVars, flowVars>>

\* add_secure_variable under a valid session, up to the with block of
\* _save_secure_data.
save_secure_data_write(p) ==
    /\ process[p] = Idle
    /\ ValidSessionNow
    /\ \E name \in StoreNames, default_value \in Defaults,
          created \in CreationModes :
       \E g \in {RequireAuth(session_file, now, session_ttl_minutes,
                             security_available, keychain, hash_file, NoInput)} :
       \E r \in {AddSecureVariable(g, secure_data_file, export_file, now, name,
                                   Description, Value, default_value, "y",
                                   <<1, 2, 3>>)} :
          /\ r.result = "True"
          /\ Len(audit_log) + Len(r.events) <= MaxAudit
          /\ file_mode' = OpenForWriting("store", created)
          /\ secure_data_file' = r.file
          /\ process' = At(p, "chmod", "_save_secure_data",
                           <<"add_secure_variable", r.events>>)
    /\ UNCHANGED <<now, session_ttl_minutes, security_available, keychain,
                   hash_file, session_file, export_file, audit_log, last>>
    /\ UNCHANGED flowVars

\* export_secure_variables_encrypted under a valid session, up to its with
\* block.
export_write(p) ==
    /\ process[p] = Idle
    /\ ValidSessionNow
    /\ \E created \in CreationModes :
       \E g \in {RequireAuth(session_file, now, session_ttl_minutes,
                             security_available, keychain, hash_file, NoInput)} :
       \E r \in {ExportSecureVariablesEncrypted(g, secure_data_file, export_file,
                                                now, ExportPath)} :
          /\ r.result = "True"
          /\ Len(audit_log) + Len(r.events) <= MaxAudit
          /\ file_mode' = OpenForWriting("export", created)
          /\ export_file' = r.export
          /\ process' = At(p, "chmod", "export_secure_variables_encrypted",
                           <<"export_secure_variables_encrypted", r.events>>)
    /\ UNCHANGED <<now, session_ttl_minutes, security_available, keychain,
                   hash_file, session_file, secure_data_file, audit_log, last>>
    /\ UNCHANGED flowVars

\* The file a method has written and is about to chmod.
Written(op) ==
    CASE op = "_store_password_hash" -> "hash"
      [] op = "_create_session" -> "session"
      [] op = "_save_secure_data" -> "store"
      [] OTHER -> "export"

\* os.chmod(path, 0o600) and the rest of the method: authenticate goes on
\* to _create_session after _store_password_hash and returns after
\* _create_session; add and export log their event and return.
chmod(p) ==
    /\ process[p].pc = "chmod"
    /\ file_mode' = [file_mode EXCEPT ![Written(process[p].op)] = OwnerOnly]
    /\ CASE process[p].op = "_store_password_hash" ->
              /\ process' = At(p, "write", "_create_session", process[p].local)
              /\ UNCHANGED <<audit_log, last>>
         [] process[p].op = "_create_session" ->
              /\ process' = [process EXCEPT ![p] = Idle]
              /\ last' = Call("authenticate", TRUE, <<>>, "True", 1, <<>>)
              /\ UNCHANGED audit_log
         [] OTHER ->
              /\ process' = [process EXCEPT ![p] = Idle]
              /\ audit_log' = LogAuditEvent(audit_log, process[p].local[2][1])
              /\ last' = Call(process[p].local[1], FALSE, <<>>, "True", 0, <<>>)
    /\ UNCHANGED <<now, session_ttl_minutes, security_available, keychain,
                   hash_file, session_file, secure_data_file, export_file>>
    /\ UNCHANGED flowVars

NextPerms ==
    \/ logout
    \/ \E p \in Procs : authenticate_begin(p)
    \/ \E p \in Procs : create_session_write(p)
    \/ \E p \in Procs : save_secure_data_write(p)
    \/ \E p \in Procs : export_write(p)
    \/ \E p \in Procs : chmod(p)

SpecPerms == Init /\ [][NextPerms]_vars

(***************************************************************************)
(* Two processes on one store file.  A store method loads the whole        *)
(* document (_load_secure_data), changes its copy and writes the whole     *)
(* document back (_save_secure_data); nothing locks the file in between.   *)
(* A process stands between the two with pc "loaded" and the document it   *)
(* loaded in process[p].local; when its call has returned it is "done"     *)
(* with the result.  Each process has its own audit log, which is left out *)
(* here.                                                                   *)
(***************************************************************************)
RaceCalls ==
    { <<"get_secure_variable", "api_key">>,
      <<"add_secure_variable", "api_key">>,
      <<"add_secure_variable", "db_password">>,
      <<"delete_secure_variable", "api_key">> }

\* The call made on the document `file`, under the session there is.
RunOn(call, file) ==
    LET g == RequireAuth(session_file, now, session_ttl_minutes,
                         security_available, keychain, hash_file, NoInput)
    IN  CASE call[1] = "get_secure_variable" ->
                 GetSecureVariable(g, file, export_file, now, call[2])
          [] call[1] = "add_secure_variable" ->
                 AddSecureVariable(g, file, export_file, now, call[2],
                                   Description, Value, None, "y", <<1, 2, 3>>)
          [] OTHER ->
                 DeleteSecureVariable(g, file, export_file, now, call[2], TRUE,
                                      NotPrompted)

\* A save that writes the change into the file as it is on disk by then.
Saved_Reloading(call, loaded, current) == RunOn(call, current).file

\* What the process writes: its call made on the document it loaded.
Saved(call, loaded, current) == RunOn(call, loaded).file

load_secure_data(p) ==
    /\ process[p] = Idle
    /\ ValidSessionNow
    /\ \E call \in RaceCalls :
          process' = At(p, "loaded", call[1], <<call, secure_data_file>>)
    /\ UNCHANGED <<now, session_ttl_minutes, security_available, keychain,
                   hash_file, session_file, file_mode, last>>
    /\ UNCHANGED <<storeVars, flowVars>>

save_secure_data(p) ==
    /\ process[p].pc = "loaded"
    /\ LET call == process[p].local[1]
           loaded == process[p].local[2]
           r == RunOn(call, loaded)
       IN  /\ secure_data_file' = IF r.result \in {"True", "value"}
                                  THEN Saved(call, loaded, secure_data_file)
                                  ELSE secure_data_file
           /\ process' = At(p, "done", call[1], <<call, r.result>>)
           /\ last' = Call(call[1], FALSE, <<call[2]>>, r.result, 0, <<>>)
    /\ UNCHANGED <<now, session_ttl_minutes, security_available, keychain,
                   hash_file, session_file, export_file, audit_log, file_mode>>
    /\ UNCHANGED flowVars

NextRace ==
    \/ \E p \in Procs : load_secure_data(p)
    \/ \E p \in Procs : save_secure_data(p)

SpecRace == InitStore /\ [][NextRace]_vars

(***************************************************************************)
(* Two processes on one session file.  authenticate (lines 101-108) and    *)
(* extend_session (lines 221-237) read the session with _get_session_data  *)
(* and later write the dict back with open(self.session_file, 'w'), which  *)
(* creates the file when it is not there; logout removes the file.  A      *)
(* process stands between its read and its write with pc "read" and the    *)
(* dict in process[p].local.  authenticate is called where a valid session *)
(* exists: nobody types a password here.                                   *)
(***************************************************************************)
SessionCalls == {"authenticate", "extend_session"}

\* The dict the call writes back.
WriteBack(op, session_data, ttl) ==
    IF op = "authenticate"
    THEN [session_data EXCEPT !.access_count = @ + 1]
    ELSE [session_data EXCEPT !.expires_at = @ + ttl]

get_session_data(p) ==
    /\ process[p] = Idle
    /\ \E op \in SessionCalls :
       \E sd \in {GetSessionData(session_file, now)} :
          /\ sd.ret # "raise"
          /\ op = "authenticate" => sd.ret = "data"
          /\ session_file' = sd.file
          /\ process' = IF sd.ret = "data"
                        THEN At(p, "read", op, <<sd.file>>)
                        ELSE At(p, "done", op, <<"False">>)
    /\ UNCHANGED <<now, session_ttl_minutes, security_available, keychain,
                   hash_file, file_mode, last>>
    /\ UNCHANGED <<storeVars, flowVars>>

write_back(p) ==
    /\ process[p].pc = "read"
    /\ \E created \in CreationModes :
       \E data \in {WriteBack(process[p].op, process[p].local[1],
                              session_ttl_minutes)} :
          /\ data.access_count <= MaxAccess + 1
          /\ data.expires_at <= MaxExpiry
          /\ file_mode' = OpenForWriting("session", created)
          /\ session_file' = data
    /\ process' = At(p, "done", process[p].op, <<"True">>)
    /\ last' = Call(process[p].op, FALSE, <<>>, "True", 0, <<>>)
    /\ UNCHANGED <<now, session_ttl_minutes, security_available, keychain,
                   hash_file>>
    /\ UNCHANGED <<storeVars, flowVars>>

logout_by(p) ==
    /\ process[p] = Idle
    /\ session_file' = NoFile
    /\ process' = At(p, "done", "logout", <<"True">>)
    /\ last' = Call("logout", FALSE, <<>>, "True", 0, <<>>)
    /\ UNCHANGED <<now, session_ttl_minutes, security_available, keychain,
                   hash_file, file_mode>>
    /\ UNCHANGED <<storeVars, flowVars>>

NextSessions ==
    \/ \E p \in Procs : get_session_data(p)
    \/ \E p \in Procs : write_back(p)
    \/ \E p \in Procs : logout_by(p)

SpecSessions == InitStore /\ [][NextSessions]_vars

(***************************************************************************)
(* What the claims are stated with.  In an action formula the unprimed     *)
(* variables are the state a call starts in, the primed ones the state it  *)
(* returns in, and last' is the call.                                      *)
(***************************************************************************)
Called(op) == last'.op = op /\ now' = now

\* What _get_stored_password_hash and _get_session_data would return now.
StoredHash == GetStoredPasswordHash(security_available, keychain, hash_file)
SessionRead == GetSessionData(session_file, now).ret

\* An entry whose hash is the stored one; an entry a setup accepts.
Correct(entry, stored_hash) == HashPassword(entry.password) = stored_hash
ValidSetup(entry) ==
    entry.password = entry.confirm /\ Len(entry.password) >= 8

\* The call made a session: the file is a fresh session that was not there.
SessionCreated ==
    /\ session_file' # session_file
    /\ WellFormed(session_file')
    /\ session_file'.access_count = 0
    /\ session_file'.created_at = now'

(***************************************************************************)
(* C4.  With a Credential and no valid session, an authenticate() call in  *)
(* which every password entered is wrong asks exactly three times, returns *)
(* false and leaves no session file behind (with force_new, the file it    *)
(* found); the Credential is untouched.  No call asks a fourth time.       *)
(***************************************************************************)
C4_Lockout ==
    [][ Called("authenticate") =>
          /\ last'.prompts <= 3
          /\ ( /\ StoredHash # NoHash
               /\ SessionRead = "None"
               /\ last'.prompts > 0
               /\ \A i \in 1..Len(last'.entered) :
                      ~Correct(last'.entered[i], StoredHash) )
             => /\ last'.result = "False"
                /\ last'.prompts = 3
                /\ Len(last'.entered) = 3
                /\ session_file' = IF last'.force_new THEN session_file ELSE NoFile
                /\ ~WellFormed(session_file') \/ session_file' = session_file
                /\ keychain' = keychain /\ hash_file' = hash_file ]_vars

C4_Witness ==
    /\ last.op = "authenticate" /\ ~last.force_new
    /\ last.result = "False" /\ last.prompts = 3
    /\ StoredHash # NoHash
    /\ session_file = NoFile
    /\ \A i \in 1..3 : ~Correct(last.entered[i], StoredHash)
    /\ last.entered[1].password = "Tr0ub4dor&3"

(***************************************************************************)
(* C5.  With a Credential and no valid session, an authenticate() call in  *)
(* which the correct password is entered at the first, second or third     *)
(* prompt returns true and leaves a session with the stored hash,          *)
(* access_count 0 and expires_at = creation time + TTL; and a call that    *)
(* makes a session, with a Credential stored, was given a password whose   *)
(* hash is the stored one.                                                 *)
(***************************************************************************)
C5_AuthenticateCreatesSession ==
    [][ (Called("authenticate") /\ StoredHash # NoHash) =>
          /\ ( /\ SessionRead = "None"
               /\ \E i \in 1..3 : /\ i <= Len(last'.entered)
                                  /\ Correct(last'.entered[i], StoredHash) )
             => /\ last'.result = "True"
                /\ last'.prompts \in 1..3
                /\ Correct(last'.entered[last'.prompts], StoredHash)
                /\ session_file' = SessionData(StoredHash, now', now' + session_ttl_minutes, 0)
          /\ SessionCreated
             => /\ last'.prompts \in 1..3
                /\ Correct(last'.entered[last'.prompts], StoredHash)
                /\ session_file'.password_hash = StoredHash ]_vars

C5_Witness ==
    /\ last.op = "authenticate" /\ last.result = "True" /\ last.prompts = 3
    /\ ~Correct(last.entered[1], StoredHash)
    /\ ~Correct(last.entered[2], StoredHash)
    /\ Correct(last.entered[3], StoredHash)
    /\ session_file = SessionData(StoredHash, now, now + session_ttl_minutes, 0)
    /\ now > 0

(***************************************************************************)
(* C6.  In setup mode (no stored hash is found), an authenticate() call    *)
(* whose setup attempts are all invalid (entries differ, or fewer than 8   *)
(* characters) returns false, writes no Credential and makes no session;   *)
(* a Credential is written and a session made only by an attempt whose     *)
(* entries match and have at least 8 characters, with that password's hash.*)
(***************************************************************************)
C6_SetupValidation ==
    [][ (Called("authenticate") /\ StoredHash = NoHash /\ last'.prompts > 0) =>
          /\ (\A i \in 1..Len(last'.entered) : ~ValidSetup(last'.entered[i]))
             => /\ last'.result = "False"
                /\ last'.prompts = 3
                /\ keychain' = keychain /\ hash_file' = hash_file
                /\ StoredHash' = NoHash
                /\ ~SessionCreated
                /\ session_file' \in {session_file, NoFile}
          /\ (keychain' # keychain \/ hash_file' # hash_file \/ SessionCreated)
             => LET e == last'.entered[last'.prompts]
                IN  /\ ValidSetup(e)
                    /\ keychain' \in {keychain, HashPassword(e.password)}
                    /\ hash_file' \in {hash_file, HashPassword(e.password)}
                    /\ HashPassword(e.password) \in {keychain', hash_file'}
                    /\ session_file' = SessionData(HashPassword(e.password), now',
                                                   now' + session_ttl_minutes, 0)
                    /\ last'.result = "True" ]_vars

C6_Witness ==
    /\ last.op = "authenticate" /\ last.result = "False" /\ last.prompts = 3
    /\ keychain = NoHash /\ hash_file = NoHash /\ session_file = NoFile
    /\ last.entered[1].password # last.entered[1].confirm
    /\ last.entered[2].password = "short"

(***************************************************************************)
(* C2.  Whenever is_authenticated() reports a valid session at time now,   *)
(* now < expires_at; a session read at exactly now = expires_at is taken   *)
(* as expired and its file deleted.                                        *)
(***************************************************************************)
C2_ValidOnlyBeforeExpiry ==
    [][ (Called("is_authenticated") /\ WellFormed(session_file)) =>
          /\ last'.result = "True" => now < session_file.expires_at
          /\ now = session_file.expires_at
             => last'.result = "False" /\ session_file' = NoFile ]_vars

(***************************************************************************)
(* C3.  Whatever the session file holds that is not a well-formed session, *)
(* is_authenticated() returns false without raising and the file is        *)
(* deleted, and no later authenticate() raises because of that file.       *)
(***************************************************************************)
C3_MalformedFailsClosed ==
    [][ (session_file # NoFile /\ ~WellFormed(session_file)) =>
          /\ Called("is_authenticated")
             => last'.result = "False" /\ session_file' = NoFile
          /\ Called("authenticate") => last'.result # "raise" ]_vars

(***************************************************************************)
(* C7.  Once a Credential hash is stored, no later call changes or removes *)
(* it, in whichever store it lies; every later authenticate() that prompts *)
(* is a verification (no confirmation is asked for), and makes a session   *)
(* only for the password whose hash is the stored one.                     *)
(***************************************************************************)
C7_CredentialIsStable ==
    [][ (keychain # NoHash \/ hash_file # NoHash) =>
          /\ keychain' = keychain
          /\ hash_file' = hash_file
          /\ (Called("authenticate") /\ last'.prompts > 0)
             => /\ \A i \in 1..Len(last'.entered) :
                       last'.entered[i].confirm = NotPrompted
                /\ last'.result = "True"
                   => HashPassword(last'.entered[last'.prompts].password)
                        \in {keychain, hash_file} ]_vars

(***************************************************************************)
(* C9.  extend_session, whatever its argument, with a valid session        *)
(* returns true and leaves a valid session with a strictly later           *)
(* expires_at and the same password_hash, created_at and access_count;     *)
(* without a valid session it returns false and leaves no session file.    *)
(***************************************************************************)
C9_ExtendSession ==
    [][ Called("extend_session") =>
          IF SessionRead = "data"
          THEN /\ last'.result = "True"
               /\ session_file'.expires_at > session_file.expires_at
               /\ session_file' = [session_file EXCEPT
                                     !.expires_at = session_file'.expires_at]
               /\ GetSessionData(session_file', now').ret = "data"
          ELSE /\ last'.result = "False"
               /\ session_file' = NoFile ]_vars

(***************************************************************************)
(* The claims on the store's methods.                                      *)
(***************************************************************************)
StoreMethods ==
    {"add_secure_variable", "get_secure_variable", "list_secure_variables",
     "update_secure_variable", "delete_secure_variable",
     "export_secure_variables_encrypted"}

CalledStore == last'.op \in StoreMethods /\ now' = now

\* The session file holds a session as _create_session wrote it, with the
\* expiry never moved: created at t0, it expires at t0 + TTL.
SessionAsCreated ==
    /\ WellFormed(session_file)
    /\ session_file.expires_at = session_file.created_at + session_ttl_minutes

\* The call read the session file: authenticate reads it unless force_new.
CalledRead ==
    \/ Called("is_authenticated")
    \/ Called("get_session_info")
    \/ Called("extend_session")
    \/ Called("authenticate") /\ ~last'.force_new
    \/ CalledStore

\* After the call the file is a session the call has just made.
SessionIsNew ==
    /\ WellFormed(session_file')
    /\ session_file'.created_at = now'
    /\ session_file'.access_count = 0
    /\ last'.prompts >= 1

(***************************************************************************)
(* C1.  For a session created at t0 with a TTL of T minutes (and never     *)
(* extended): is_authenticated() returns true at every time strictly       *)
(* before t0 + T and false at every time strictly after; a read of the     *)
(* session file after t0 + T (is_authenticated, authenticate,              *)
(* get_session_info, extend_session or a store method) deletes the file,   *)
(* so that what is left is no file or a session the call has made after    *)
(* prompting; a store method that reads an expired session, and a store    *)
(* method called when there is no session file, prompts for the password.  *)
(***************************************************************************)
C1_SessionExpiry ==
    [][ /\ SessionAsCreated =>
            /\ Called("is_authenticated") =>
                  /\ now < session_file.expires_at => last'.result = "True"
                  /\ now > session_file.expires_at => last'.result = "False"
            /\ (now > session_file.expires_at /\ CalledRead) =>
                  /\ session_file' = NoFile \/ SessionIsNew
                  /\ last'.op \in {"is_authenticated", "get_session_info",
                                   "extend_session"} => session_file' = NoFile
            /\ (now > session_file.expires_at /\ CalledStore) =>
                  last'.prompts >= 1
        /\ (session_file = NoFile /\ CalledStore) => last'.prompts >= 1 ]_vars

\* A store method, called later than the TTL after the password was set up,
\* has asked for the password once, as a verification, and made a session.
C1_Witness ==
    /\ last.op = "get_secure_variable"
    /\ last.prompts = 1
    /\ last.entered[1].confirm = NotPrompted
    /\ now > session_ttl_minutes
    /\ session_file = SessionData(StoredHash, now, now + session_ttl_minutes, 0)

RawPasswords == Passwords \ {""}

Ciphertexts(file) ==
    UNION { {var_data.encrypted_value, var_data.encrypted_description}
              \cup {var_data.encrypted_default[i] :
                      i \in DOMAIN var_data.encrypted_default} :
            var_data \in {file.doc.secure_variables[n] :
                            n \in DOMAIN file.doc.secure_variables} }

C10_RawPasswordNeverPersisted ==
    /\ \A h \in {keychain, hash_file, session_file.password_hash} :
          /\ h = NoHash \/ h \in Hashes
          /\ h \notin RawPasswords
    /\ \A c \in Ciphertexts(secure_data_file) \cup Ciphertexts(export_file) :
          /\ c.key \in Hashes
          /\ c.key \notin RawPasswords
          /\ c.plaintext \notin RawPasswords

\* Every artifact is there: the hash in the fallback file, a session, a
\* store file and an export file with a variable, after a prompt at which
\* the password was typed.
C10_Witness ==
    /\ last.op = "export_secure_variables_encrypted"
    /\ last.prompts = 1
    /\ last.entered[1].password = OwnPassword
    /\ hash_file = HashPassword(OwnPassword)
    /\ session_file.password_hash = HashPassword(OwnPassword)
    /\ Ciphertexts(secure_data_file) # {}
    /\ Ciphertexts(export_file) = Ciphertexts(secure_data_file)

(***************************************************************************)
(* The claims on the records of the store.                                 *)
(***************************************************************************)
Files == {secure_data_file, export_file}

Records(file) ==
    { file.doc.secure_variables[n] : n \in DOMAIN file.doc.secure_variables }

RecordFields ==
    {"encrypted_value", "encrypted_description", "encrypted_default",
     "is_secure", "created_at", "used_count", "last_accessed", "last_modified"}

\* A field that holds the output of encrypt.
Encrypted(c) == c.cipher = "AES-256-CBC" /\ Decrypt(c, NoHash) = None

(***************************************************************************)
(* C11.  In every reachable state every record of the store file and of    *)
(* the export file has the fields of a record and no other; its value and  *)
(* description, and its default when it has one, are outputs of encrypt,   *)
(* which nobody reads without the password hash; the rest is usage         *)
(* metadata (times, a count, a flag).                                      *)
(***************************************************************************)
C11_OnlyCiphertextOnDisk ==
    \A file \in Files : \A var_data \in Records(file) :
        /\ DOMAIN var_data = RecordFields
        /\ Encrypted(var_data.encrypted_value)
        /\ Encrypted(var_data.encrypted_description)
        /\ \A i \in DOMAIN var_data.encrypted_default :
               Encrypted(var_data.encrypted_default[i])
        /\ var_data.is_secure \in BOOLEAN
        /\ var_data.created_at \in 0..MaxTime
        /\ var_data.used_count \in Nat
        /\ \A i \in DOMAIN var_data.last_accessed :
               var_data.last_accessed[i] \in 0..MaxTime
        /\ \A i \in DOMAIN var_data.last_modified :
               var_data.last_modified[i] \in 0..MaxTime

\* An update has put a new value, description and default into a record of
\* a store with two records.
C11_Witness ==
    /\ last.op = "update_secure_variable" /\ last.result = "True"
    /\ last.arg = <<"api_key", Some("rotated key"), Some("sk-67890"),
                    Some("sk-fallback")>>
    /\ DOMAIN secure_data_file.doc.secure_variables = RecordNames
    /\ secure_data_file.doc.secure_variables["api_key"].encrypted_value.plaintext
         = "sk-67890"

(***************************************************************************)
(* C12.  In every reachable state the encrypted_value, the                 *)
(* encrypted_description and, when there is one, the encrypted_default of  *)
(* a record of the store are encrypted under one password hash.            *)
(***************************************************************************)
Blobs(var_data) ==
    {var_data.encrypted_value, var_data.encrypted_description}
      \cup {var_data.encrypted_default[i] : i \in DOMAIN var_data.encrypted_default}

C12_OneHashPerRecord ==
    \A var_data \in Records(secure_data_file) :
        \A c \in Blobs(var_data) : c.key = var_data.encrypted_value.key

\* A call of a store method that found no valid session and left none: the
\* authentication it asked for failed.
ValidSession(f, t) == GetSessionData(f, t).ret = "data"

AuthenticationFailed ==
    /\ CalledStore
    /\ ~ValidSession(session_file, now)
    /\ ~ValidSession(session_file', now')

\* The failure result of the method called: false, null or an empty list.
FailureResult ==
    CASE last'.op = "get_secure_variable" -> last'.result = "None"
      [] last'.op = "list_secure_variables" ->
             last'.result = "list" /\ DOMAIN last'.out = {}
      [] OTHER -> last'.result = "False"

(***************************************************************************)
(* C13.  A call of add, get, list, update, delete or export that finds no  *)
(* valid session and whose authentication fails returns its failure result *)
(* (false, null, an empty list) and leaves the store file as it was; a     *)
(* step that changes the store file is a call of a store method that       *)
(* returns with a valid session, the one it found or the one its           *)
(* authentication created.  (Sessions last a positive number of minutes.)  *)
(***************************************************************************)
C13_NoWriteWithoutSession ==
    [][ /\ AuthenticationFailed =>
              FailureResult /\ secure_data_file' = secure_data_file
        /\ secure_data_file' # secure_data_file =>
              CalledStore /\ ValidSession(session_file', now') ]_vars

\* A forced delete of a record of the store was turned down after three
\* rejected passwords.
C13_Witness ==
    /\ last.op = "delete_secure_variable" /\ last.arg = <<"api_key", TRUE>>
    /\ last.result = "False" /\ last.prompts = max_attempts
    /\ ~ValidSession(session_file, now)
    /\ "api_key" \in DOMAIN secure_data_file.doc.secure_variables

\* add was called for a name the store holds and read `answer` at the
\* "Overwrite? (y/N)" prompt.
AddAsked(answer) ==
    /\ Called("add_secure_variable")
    /\ last'.arg[1] \in DOMAIN secure_data_file.doc.secure_variables
    /\ last'.out = Some(answer)

\* The answers that are 'y' once the spaces around them are dropped and
\* their letters are lowercased.
Yes == {"y", "Y", " y "}

(***************************************************************************)
(* C14 as stated.  add for a name the store holds, when the answer to the  *)
(* overwrite prompt is anything other than 'y', returns false and leaves   *)
(* the store file unchanged.                                               *)
(***************************************************************************)
C14_AnythingButY ==
    [][ \A answer \in TypedAnswers \ {"y"} :
            AddAsked(answer) =>
                last'.result = "False" /\ secure_data_file' = secure_data_file
      ]_vars

(***************************************************************************)
(* C14, amended.  add for a name the store holds, when the answer to the   *)
(* overwrite prompt, stripped of the spaces around it and lowercased, is   *)
(* anything other than 'y', returns false and leaves the store file        *)
(* unchanged: the record keeps its blobs, created_at, used_count and       *)
(* last_accessed, and metadata.last_modified is not touched.  The answers  *)
(* 'Y' and ' y ' overwrite as 'y' does.                                    *)
(***************************************************************************)
C14_NoOverwriteUnlessYes ==
    [][ /\ \A answer \in TypedAnswers \ Yes :
               AddAsked(answer) =>
                   last'.result = "False" /\ secure_data_file' = secure_data_file
        /\ \A answer \in Yes :
               AddAsked(answer) =>
                   /\ last'.result = "True"
                   /\ secure_data_file'.doc.secure_variables[last'.arg[1]].created_at
                        = now
      ]_vars

\* add("api_key", ...) on a store that holds "api_key" was answered "yes"
\* and returned false.
C14_Witness ==
    /\ last.op = "add_secure_variable" /\ last.arg[1] = "api_key"
    /\ last.out = Some("yes") /\ last.result = "False"
    /\ "api_key" \in DOMAIN secure_data_file.doc.secure_variables

\* The records of the store file before and after a step, and the password
\* hash a store method that returns now has worked with.
Stored == secure_data_file.doc.secure_variables
StoredAfter == secure_data_file'.doc.secure_variables
HashUsed == GetPasswordHash(session_file', now')

(***************************************************************************)
(* C15.  A successful add(name, description, value, default) under a       *)
(* session with password hash h stores, as the record's value, the         *)
(* encryption of exactly `value` under h; the stored value of a record     *)
(* changes only in a successful add or update of that name, and a record   *)
(* goes only in a successful delete of that name; and get(name) under a    *)
(* valid session whose hash is the one the stored value was encrypted      *)
(* under returns exactly the text that was encrypted, the empty string     *)
(* included.                                                               *)
(***************************************************************************)
C15_GetReturnsValue ==
    [][ /\ Called("add_secure_variable") /\ last'.result = "True" =>
              /\ HashUsed # NoHash
              /\ StoredAfter[last'.arg[1]].encrypted_value.key = HashUsed
              /\ StoredAfter[last'.arg[1]].encrypted_value.plaintext = last'.arg[3]
        /\ \A name \in DOMAIN Stored :
              /\ name \notin DOMAIN StoredAfter =>
                    /\ Called("delete_secure_variable")
                    /\ last'.arg[1] = name /\ last'.result = "True"
              /\ /\ name \in DOMAIN StoredAfter
                 /\ StoredAfter[name].encrypted_value # Stored[name].encrypted_value
                 => /\ \/ Called("add_secure_variable")
                       \/ Called("update_secure_variable")
                    /\ last'.arg[1] = name /\ last'.result = "True"
              /\ /\ Called("get_secure_variable") /\ last'.arg[1] = name
                 /\ HashUsed = Stored[name].encrypted_value.key
                 => /\ last'.result = "value"
                    /\ last'.out = Some(Stored[name].encrypted_value.plaintext)
      ]_vars

\* get("api_key") has returned the empty string, the value "api_key" was
\* added with.
C15_Witness ==
    /\ last.op = "get_secure_variable" /\ last.arg = <<"api_key">>
    /\ last.result = "value" /\ last.out = Some("")
    /\ secure_data_file.doc.secure_variables["api_key"].encrypted_value.plaintext = ""
    /\ secure_data_file.doc.secure_variables["api_key"].used_count = 1

(***************************************************************************)
(* C16.  get(name), for a record of the store and under a valid session:   *)
(* when the value decrypts under the session's hash, the call returns a    *)
(* value and the store file it leaves is the one it found with that        *)
(* record's used_count one higher and its last_accessed set to the time of *)
(* the call, every other record, every blob and the file's metadata as     *)
(* they were; when the value does not decrypt, the call returns null and   *)
(* the store file is unchanged.                                            *)
(***************************************************************************)
C16_GetCountsSuccessOnly ==
    [][ \A name \in DOMAIN Stored :
            /\ Called("get_secure_variable") /\ last'.arg[1] = name
            /\ ValidSession(session_file', now')
            => IF Decrypt(Stored[name].encrypted_value, HashUsed) # None
               THEN /\ last'.result = "value"
                    /\ secure_data_file' =
                         [secure_data_file EXCEPT
                            !.doc.secure_variables[name].used_count = @ + 1,
                            !.doc.secure_variables[name].last_accessed = Some(now)]
               ELSE /\ last'.result = "None"
                    /\ secure_data_file' = secure_data_file
      ]_vars

\* get("api_key") under the hash of another password than the one
\* "api_key" was encrypted under has returned null; "db_password" is there
\* too.
C16_Witness ==
    /\ last.op = "get_secure_variable" /\ last.arg = <<"api_key">>
    /\ last.result = "None"
    /\ ValidSession(session_file, now)
    /\ DOMAIN secure_data_file.doc.secure_variables = RecordNames
    /\ secure_data_file.doc.secure_variables["api_key"].encrypted_value.key
         # session_file.password_hash
    /\ secure_data_file.doc.secure_variables["api_key"].used_count = 0

(***************************************************************************)
(* C17.  list leaves the store file as it was, for either setting of       *)
(* show_values.  list(show_values=False) under a valid session returns one *)
(* entry for every record of the store; the value of every entry is the    *)
(* placeholder, and its default_value is the placeholder when the record   *)
(* has a default and null when it has none, so that no decrypted value or  *)
(* default is returned.                                                    *)
(***************************************************************************)
C17_ListHidesValues ==
    [][ Called("list_secure_variables") =>
          /\ secure_data_file' = secure_data_file
          /\ last'.result = "list"
          /\ ValidSession(session_file', now') => DOMAIN last'.out = DOMAIN Stored
          /\ ~last'.arg[1] =>
                \A name \in DOMAIN last'.out :
                    /\ last'.out[name].value = EncryptedValuePlaceholder
                    /\ last'.out[name].default_value =
                         IF Stored[name].encrypted_default # None
                         THEN Some(EncryptedValuePlaceholder) ELSE None
      ]_vars

\* list(show_values=False) has listed two records, one with a default, and
\* their values can be decrypted under the session's hash.
C17_Witness ==
    /\ last.op = "list_secure_variables" /\ last.arg = <<FALSE>>
    /\ DOMAIN last.out = RecordNames
    /\ last.out["api_key"].default_value = Some(EncryptedValuePlaceholder)
    /\ last.out["db_password"].default_value = None
    /\ \A name \in RecordNames :
         Decrypt(secure_data_file.doc.secure_variables[name].encrypted_value,
                 session_file.password_hash) # None

\* The description list reports for a description it could not decrypt.
CannotDecrypt == "[ENCRYPTED - CANNOT DECRYPT]"

(***************************************************************************)
(* C18.  list under a valid session returns an entry for every record of   *)
(* the store, whatever becomes of the other records; the entry's           *)
(* description is the text the description was encrypted from when the     *)
(* session's hash is the hash it was encrypted under, and it is the        *)
(* cannot-decrypt marker exactly when decrypting the description fails.    *)
(***************************************************************************)
C18_ListDescriptions ==
    [][ Called("list_secure_variables") /\ ValidSession(session_file', now') =>
          \A name \in DOMAIN Stored :
              /\ name \in DOMAIN last'.out
              /\ Stored[name].encrypted_description.key = HashUsed =>
                    last'.out[name].description =
                        Stored[name].encrypted_description.plaintext
              /\ last'.out[name].description = CannotDecrypt <=>
                    Decrypt(Stored[name].encrypted_description, HashUsed) = None
      ]_vars

\* update was called for `name` and returned true.
Updated(name) ==
    /\ Called("update_secure_variable")
    /\ last'.arg[1] = name /\ last'.result = "True"

\* `blob` is the encryption of `text` under the hash the call worked with.
EncryptionOf(blob, text) == blob.plaintext = text /\ blob.key = HashUsed

(***************************************************************************)
(* C19.  A successful update(name, description?, value?, default?) of a    *)
(* record of the store replaces the blob of every field an argument was    *)
(* passed for, the empty string included, by the encryption of that        *)
(* argument under the session's hash (for the default, the empty string    *)
(* may also take the blob away, which is what C20 says of it), and leaves  *)
(* the blob of every omitted field, the record's created_at, used_count    *)
(* and last_accessed, and every other record as they were.                 *)
(***************************************************************************)
C19_UpdateReplacesSupplied ==
    [][ \A name \in DOMAIN Stored :
          Updated(name) =>
            /\ DOMAIN StoredAfter = DOMAIN Stored
            /\ \A other \in DOMAIN Stored \ {name} :
                   StoredAfter[other] = Stored[other]
            /\ StoredAfter[name].created_at = Stored[name].created_at
            /\ StoredAfter[name].used_count = Stored[name].used_count
            /\ StoredAfter[name].last_accessed = Stored[name].last_accessed
            /\ IF last'.arg[2] = None
               THEN StoredAfter[name].encrypted_description
                      = Stored[name].encrypted_description
               ELSE EncryptionOf(StoredAfter[name].encrypted_description,
                                 last'.arg[2][1])
            /\ IF last'.arg[3] = None
               THEN StoredAfter[name].encrypted_value
                      = Stored[name].encrypted_value
               ELSE EncryptionOf(StoredAfter[name].encrypted_value,
                                 last'.arg[3][1])
            /\ IF last'.arg[4] = None
               THEN StoredAfter[name].encrypted_default
                      = Stored[name].encrypted_default
               ELSE \/ /\ last'.arg[4] = Some("")
                       /\ StoredAfter[name].encrypted_default = None
                    \/ /\ StoredAfter[name].encrypted_default # None
                       /\ EncryptionOf(StoredAfter[name].encrypted_default[1],
                                       last'.arg[4][1])
      ]_vars

\* What list() returns in the state a call has left, under the session it
\* has left.
ListedAfter ==
    ListSecureVariables(RequireAuth(session_file', now', session_ttl_minutes',
                                    security_available', keychain', hash_file',
                                    NoInput),
                        secure_data_file', export_file', now', FALSE).out

(***************************************************************************)
(* C20.  A successful update(name, default_value="") of a record of the    *)
(* store leaves the record without an encrypted_default, and list then     *)
(* reports has_default false for it; a successful update that omits        *)
(* default_value leaves the record's encrypted_default as it was: the same *)
(* blob when it had one, none when it had none.                            *)
(***************************************************************************)
C20_EmptyDefaultClears ==
    [][ \A name \in DOMAIN Stored :
          Updated(name) =>
            /\ last'.arg[4] = Some("") =>
                  /\ StoredAfter[name].encrypted_default = None
                  /\ ~ListedAfter[name].has_default
            /\ last'.arg[4] = None =>
                  /\ StoredAfter[name].encrypted_default
                       = Stored[name].encrypted_default
                  /\ ListedAfter[name].has_default
                       <=> Stored[name].encrypted_default # None
      ]_vars

\* update("api_key", default_value="") has returned true on the record that
\* was added with the default "sk-default", and the record has no default.
C20_Witness ==
    /\ last.op = "update_secure_variable" /\ last.result = "True"
    /\ last.arg = <<"api_key", None, None, Some("")>>
    /\ secure_data_file.doc.secure_variables["api_key"].encrypted_description.plaintext
         = "API key"
    /\ secure_data_file.doc.secure_variables["api_key"].encrypted_default = None

\* The session a call has left, as the gate of the next call finds it, and
\* what get(name) returns in the state the call has left.
GateAfter ==
    RequireAuth(session_file', now', session_ttl_minutes', security_available',
                keychain', hash_file', NoInput)

GotAfter(name) ==
    GetSecureVariable(GateAfter, secure_data_file', export_file', now', name).result

\* delete was called for a record of the store and the call authenticated.
DeleteCalled(name, force) ==
    /\ Called("delete_secure_variable")
    /\ last'.arg = <<name, force>>
    /\ name \in DOMAIN Stored
    /\ ValidSession(session_file', now')

\* The store file without the record `name`, every other record as it is.
Without(name) ==
    [n \in DOMAIN Stored \ {name} |-> Stored[n]]

(***************************************************************************)
(* C21 as stated, in its part on the confirmation.  delete(name,           *)
(* force=False) of a record of the store, when the confirmation is         *)
(* anything other than 'y', returns false and leaves the store file        *)
(* unchanged.                                                              *)
(***************************************************************************)
C21_DeleteOnlyOnY ==
    [][ \A name \in DOMAIN Stored :
          /\ DeleteCalled(name, FALSE)
          /\ last'.out # Some("y")
          => last'.result = "False" /\ secure_data_file' = secure_data_file
      ]_vars

(***************************************************************************)
(* C21, amended.  delete(name, force=True) of a record of the store, under *)
(* a session that is or becomes valid, returns true and removes the record *)
(* and no other; get(name) then returns null and list() has no entry for   *)
(* name, and a name comes into the store only in a successful add of it.   *)
(* delete(name, force=False) does the same when the confirmation, stripped *)
(* of the spaces around it and lowercased, is 'y', and otherwise returns   *)
(* false and leaves the store file unchanged.                              *)
(***************************************************************************)
C21_DeleteRemoves ==
    [][ /\ \A name \in DOMAIN Stored :
              /\ \/ DeleteCalled(name, TRUE)
                 \/ DeleteCalled(name, FALSE) /\ last'.out[1] \in Yes
                 => /\ last'.result = "True"
                    /\ StoredAfter = Without(name)
                    /\ GotAfter(name) = "None"
                    /\ name \notin DOMAIN ListedAfter
              /\ DeleteCalled(name, FALSE) /\ last'.out[1] \notin Yes
                 => /\ last'.result = "False"
                    /\ secure_data_file' = secure_data_file
        /\ \A name \in DOMAIN StoredAfter \ DOMAIN Stored :
              /\ Called("add_secure_variable")
              /\ last'.arg[1] = name /\ last'.result = "True"
        /\ Called("get_secure_variable") /\ last'.arg[1] \notin DOMAIN Stored
              => last'.result = "None"
        /\ Called("list_secure_variables")
              => DOMAIN last'.out \subseteq DOMAIN Stored
      ]_vars

\* delete("api_key", force=True) has returned true on a store that held
\* "api_key" and "db_password", and "db_password" is what it holds now.
C21_Witness ==
    /\ last.op = "delete_secure_variable" /\ last.arg = <<"api_key", TRUE>>
    /\ last.result = "True"
    /\ DOMAIN secure_data_file.doc.secure_variables = {"db_password"}
    /\ secure_data_file.doc.secure_variables["db_password"].encrypted_value.plaintext
         = SecondRecord[2]

\* The file a successful export has written: the one at the path it was
\* called with.
Exported ==
    /\ Called("export_secure_variables_encrypted")
    /\ last'.result = "True"

WrittenByExport ==
    IF last'.arg[1] = SecureDataPath THEN secure_data_file' ELSE export_file'

(***************************************************************************)
(* C22.  A successful export(path), for the path of a backup file and for  *)
(* the path of the store file alike, writes at that path a document whose  *)
(* secure_variables (names, blobs, usage metadata) and metadata are the    *)
(* store's at the time of the call, with export_metadata beside them; it   *)
(* leaves the store file unchanged, and the session it found valid         *)
(* unchanged.                                                              *)
(***************************************************************************)
C22_ExportCopiesStore ==
    [][ Exported =>
          /\ WrittenByExport.shape = "json"
          /\ WrittenByExport.doc.secure_variables = Stored
          /\ WrittenByExport.doc.metadata
               = LoadSecureData(secure_data_file, now).metadata
          /\ "export_metadata" \in DOMAIN WrittenByExport.doc
          /\ secure_data_file' = secure_data_file
          /\ ValidSession(session_file, now) => session_file' = session_file
      ]_vars

\* A call of add, update, delete or get has returned its success result:
\* true, or for get the value.
Mutators ==
    {"add_secure_variable", "update_secure_variable", "delete_secure_variable",
     "get_secure_variable"}

Succeeded ==
    /\ last'.op \in Mutators /\ now' = now
    /\ last'.result = IF last'.op = "get_secure_variable" THEN "value" ELSE "True"

(***************************************************************************)
(* C23.  A successful add, update or delete, and a successful get (which   *)
(* persists the usage statistics), returns with the store file written:    *)
(* the file is a JSON document, and its metadata.last_modified is the time *)
(* of the call.                                                            *)
(***************************************************************************)
C23_LastModifiedOnWrite ==
    [][ Succeeded =>
          /\ secure_data_file'.shape = "json"
          /\ secure_data_file'.doc.metadata.last_modified = Some(now)
      ]_vars

\* get, update or delete was called, under a session that was valid, for a
\* name the store file does not hold.
NotFoundMethods ==
    {"get_secure_variable", "update_secure_variable", "delete_secure_variable"}

CalledForMissing ==
    /\ last'.op \in NotFoundMethods /\ now' = now
    /\ ValidSession(session_file, now)
    /\ \/ secure_data_file.shape # "json"
       \/ last'.arg[1] \notin DOMAIN Stored

(***************************************************************************)
(* C24.  get, update and delete, called under a valid session with a name  *)
(* that is not in the store, return null (get) or false (update, delete),  *)
(* raise nothing, and leave the store file as it was, whatever the store   *)
(* file is: a document that holds other names, no file, a file that is not *)
(* JSON, a JSON object without the secure_variables map.                   *)
(***************************************************************************)
C24_NotFound ==
    [][ CalledForMissing =>
          /\ last'.result =
                IF last'.op = "get_secure_variable" THEN "None" ELSE "False"
          /\ secure_data_file' = secure_data_file
      ]_vars

\* update("db_password", ...) has returned false on a store file whose JSON
\* has no secure_variables map.
C24_Witness ==
    /\ last.op = "update_secure_variable" /\ last.arg[1] = "db_password"
    /\ last.result = "False" /\ last.prompts = 0
    /\ ValidSession(session_file, now)
    /\ secure_data_file = ObjectFile

\* The events of the log are those logged at the minutes `from`, `from` + 1,
\* ..., in this order.
LoggedSince(log, from) ==
    \A i \in 1..Len(log) : log[i].timestamp = from + i - 1

Min(a, b) == IF a <= b THEN a ELSE b

(***************************************************************************)
(* C25.  After every step the audit log holds at most 100 events: after n  *)
(* events logged, one a minute from minute 0, it holds the min(n, 100)     *)
(* last of them in the order they were logged; and what a caller does to   *)
(* the list get_audit_log() returned leaves the log as it was.             *)
(***************************************************************************)
C25_AuditLogBounded ==
    [][ /\ Len(audit_log') <= AuditCap
        /\ Len(audit_log') = Min(now', AuditCap)
        /\ LoggedSince(audit_log', now' - Len(audit_log'))
        /\ last'.op = "get_audit_log" => audit_log' = audit_log
      ]_vars

\* The call of a store method has returned its success result: true, the
\* value (get), the list of the store (list).
ReturnedSuccess ==
    CASE last'.op = "get_secure_variable" -> last'.result = "value"
      [] last'.op = "list_secure_variables" ->
             last'.result = "list" /\ ValidSession(session_file', now')
      [] OTHER -> last'.result = "True"

(***************************************************************************)
(* C26.  Every call of add, get, update, delete, list or export appends    *)
(* exactly one event to the audit log, and the event's success is true     *)
(* exactly when the call returned its success result: a call that fails    *)
(* (authentication failure, no password hash, name not found, cancelled    *)
(* confirmation, decryption failure) appends one event with success false. *)
(***************************************************************************)
C26_OneEventPerCall ==
    [][ CalledStore =>
          /\ Len(audit_log') = Len(audit_log) + 1
          /\ SubSeq(audit_log', 1, Len(audit_log)) = audit_log
          /\ audit_log'[Len(audit_log')].success <=> ReturnedSuccess
      ]_vars


(***************************************************************************)
(* C27 .. C29: encrypt and decrypt.                                        *)
(***************************************************************************)
Decrypted(damage) ==
    /\ Called("decrypt")
    /\ last.op = (IF damage THEN "corrupt" ELSE "encrypt")

\* C27: for every string s, the empty one and non-ASCII ones included, and
\* every password hash h, decrypt(encrypt(s, h), h) is s, where
\* `cryptography` imports and where it does not.
C27_RoundTrip ==
    [][Decrypted(FALSE) /\ last'.arg[5] = last.arg[3]
         => last'.out = Some(last.arg[2])]_vars

C27_Witness ==
    /\ last.op = "decrypt"
    /\ last.arg[1]
    /\ last.arg[2] = <<128512>>
    /\ last.arg[4] = Intact
    /\ last.arg[5] = last.arg[3]
    /\ last.out = Some(<<128512>>)

\* C28: for every string s and password hashes h1 # h2,
\* decrypt(encrypt(s, h1), h2) returns None, on both paths.
C28_WrongHashGivesNone ==
    [][Decrypted(FALSE) /\ last'.arg[5] # None /\ last'.arg[5] # last.arg[3]
         => last'.out = None]_vars

\* C29: decrypt returns None, and raises nothing, for an input that encrypt
\* did not produce (no base64, shorter than the header, truncated, altered)
\* under every password hash and under none, on both paths.
C29_DamagedGivesNone ==
    [][Decrypted(TRUE) => last'.out = None]_vars


(***************************************************************************)
(* C30: the capability check before a secret is encrypted.                 *)
(***************************************************************************)
Encrypting ==
    \/ Called("add_secure_variable")
    \/ Called("update_secure_variable") /\ last'.arg[3] \notin {None, Some("")}

Surfaced(message) == \E i \in 1..Len(stdout) : stdout[i] = message

\* C30: every successful add or update that encrypts a secret comes, in its
\* flow, after a call of verify_encryption_capability() whose result was
\* shown to the user; nothing is encrypted on the fallback path without it.
C30_CapabilityShownFirst ==
    [][Encrypting /\ last'.result = "True"
         => Surfaced(IF cryptography_installed THEN AesAvailable
                     ELSE FallbackAvailable)]_vars

(***************************************************************************)
(* C31: a store operation under a valid session, and the session.          *)
(***************************************************************************)
\* C31: every store operation (add, get, list, update, delete, export)
\* made while a valid session exists increases the session's access_count
\* by 1 or moves its expiry further out.
C31_AccessMutatesSession ==
    [][CalledStore /\ ValidSession(session_file, now)
         => \/ session_file'.access_count = session_file.access_count + 1
            \/ session_file'.expires_at > session_file.expires_at]_vars

(***************************************************************************)
(* C32: the permission bits of the files.                                  *)
(***************************************************************************)
\* C32: in every reachable state, the states inside _create_session,
\* _save_secure_data, export and _store_password_hash included, each of the
\* session file, the store file, the export file and the Credential fallback
\* file that exists is owner read/write only (0600).
C32_OwnerOnly ==
    \A f \in FileNames : Exists(f) => file_mode[f] = OwnerOnly

(***************************************************************************)
(* C33: two processes on one store file.                                   *)
(***************************************************************************)
Returned(p, call) ==
    /\ process[p].pc = "done"
    /\ process[p].local[1] = call
    /\ process[p].local[2] \in {"True", "value"}

\* C33: a store operation is a load and a later save of the whole document,
\* so the save of a call that succeeds leaves on disk the document its
\* process loaded with that call's change and nothing written since: an
\* interleaving is reachable in which both processes return success and the
\* file shows the last writer only.
C33_LastWriterWins ==
    [][\A p \in Procs :
          /\ process[p].pc = "loaded"
          /\ process'[p].pc = "done"
          /\ process'[p].local[2] \in {"True", "value"}
          => secure_data_file' =
                RunOn(process[p].local[1], process[p].local[2]).file]_vars

\* Two get("api_key") calls have returned the value and used_count, 0
\* before them, is 1.
C33_Witness ==
    /\ \A p \in Procs : Returned(p, <<"get_secure_variable", "api_key">>)
    /\ secure_data_file.doc.secure_variables["api_key"].used_count = 1

(***************************************************************************)
(* C34: the hash of a valid session and the stored Credential.             *)
(***************************************************************************)
\* C34: whenever a valid session exists, its password_hash is the hash of
\* the stored Credential.
C34_SessionHashIsCredential ==
    ValidSessionNow => session_file.password_hash = StoredHash

(***************************************************************************)
(* C35: a failed authenticate and the session.                             *)
(***************************************************************************)
\* C35: whenever authenticate(force_new) returns false, for either value of
\* force_new, is_authenticated() is false immediately afterwards.
C35_FailedAuthLeavesNoSession ==
    [][Called("authenticate") /\ last'.result = "False"
         => ~ValidSession(session_file', now')]_vars

(***************************************************************************)
(* C36: logout beside a call that writes the session back.                 *)
(***************************************************************************)
\* C36: with one process calling logout() and the other inside
\* authenticate() or extend_session(), the session file is absent once both
\* calls have finished (no password is entered here): the write-back of the
\* other call does not bring the session back.
C36_LogoutIsFinal ==
    /\ \A p \in Procs : process[p].pc = "done"
    /\ \E p \in Procs : process[p].op = "logout"
    => session_file.shape = "absent"

(***************************************************************************)
(* A store file that stops being JSON while it holds records: its last     *)
(* bytes are lost, and json.load raises JSONDecodeError on what is left.   *)
(* `doc` keeps the records whose text is still in the file;                *)
(* _load_secure_data does not see them (LoadSecureData reads `doc` of a    *)
(* "json" file only).                                                      *)
(***************************************************************************)
store_file_damaged ==
    /\ last.op = "init"
    /\ secure_data_file.shape = "json"
    /\ secure_data_file' = [secure_data_file EXCEPT !.shape = "garbage"]
    /\ UNCHANGED <<now, session_ttl_minutes, security_available, keychain,
                   hash_file, session_file, export_file, audit_log, last>>
    /\ UNCHANGED <<flowVars, stepVars>>

NextLost == NextRecords \/ store_file_damaged

SpecLost == InitRecords /\ [][NextLost]_vars

\* The records whose text is in the store file, parsable or not.
OnDisk == secure_data_file.doc.secure_variables

\* C37: an add or update of `name` that returns True leaves every other
\* record that was in the store file in it, unchanged, whatever the file
\* held before, a file that is not JSON included.
C37_OthersKept ==
    [][(Called("add_secure_variable") \/ Called("update_secure_variable"))
       /\ last'.result = "True"
       => \A n \in DOMAIN OnDisk \ {last'.arg[1]} :
             /\ n \in DOMAIN StoredAfter
             /\ StoredAfter[n] = OnDisk[n]]_vars

(***************************************************************************)
(* One process after another on the same files.  Every process builds its  *)
(* own SecureVariableManager, whose audit_log starts empty (line 26), and  *)
(* calls one method of the store; the files are what the processes before  *)
(* it left.  Processes are started while no record has been read MaxUses   *)
(* times.                                                                  *)
(***************************************************************************)
MaxUses == 2

new_process ==
    /\ last.op # "init"
    /\ \A n \in DOMAIN secure_data_file.doc.secure_variables :
          secure_data_file.doc.secure_variables[n].used_count < MaxUses
    /\ audit_log' = <<>>
    /\ last' = Call("init", FALSE, <<>>, "None", 0, <<>>)
    /\ UNCHANGED <<now, session_ttl_minutes, security_available, keychain,
                   hash_file, session_file, secure_data_file, export_file>>
    /\ UNCHANGED <<flowVars, stepVars>>

\* The calls the processes make, with arguments from small sets: a process
\* reads either record, and adds, updates or deletes "api_key".
Gate(in) ==
    RequireAuth(session_file, now, session_ttl_minutes, security_available,
                keychain, hash_file, in)

add_call ==
    /\ NoCallYet
    /\ \E name \in StoreNames :
       \E overwrite \in IF name \in DOMAIN secure_data_file.doc.secure_variables
                        THEN Answers ELSE {NotPrompted} :
       \E in \in GateInputs(session_file, now, security_available, keychain, hash_file) :
       \E g \in {Gate(in)} :
       \E r \in {AddSecureVariable(g, secure_data_file, export_file, now, name,
                                   Description, Value, None, overwrite,
                                   <<1, 2, 3>>)} :
           StoreCall("add_secure_variable", <<name, Description, Value, None>>, g, r)

get_call ==
    /\ NoCallYet
    /\ \E name \in RecordNames :
       \E in \in GateInputs(session_file, now, security_available, keychain, hash_file) :
       \E g \in {Gate(in)} :
       \E r \in {GetSecureVariable(g, secure_data_file, export_file, now, name)} :
           StoreCall("get_secure_variable", <<name>>, g, r)

list_call ==
    /\ NoCallYet
    /\ \E show_values \in BOOLEAN :
       \E in \in GateInputs(session_file, now, security_available, keychain, hash_file) :
       \E g \in {Gate(in)} :
       \E r \in {ListSecureVariables(g, secure_data_file, export_file, now,
                                     show_values)} :
           StoreCall("list_secure_variables", <<show_values>>, g, r)

update_call ==
    /\ NoCallYet
    /\ \E name \in StoreNames, u \in UpdateArgs :
       \E in \in GateInputs(session_file, now, security_available, keychain, hash_file) :
       \E g \in {Gate(in)} :
       \E r \in {UpdateSecureVariable(g, secure_data_file, export_file, now, name,
                                      u[1], u[2], u[3], <<1, 2, 3>>)} :
           StoreCall("update_secure_variable", <<name, u[1], u[2], u[3]>>, g, r)

delete_call ==
    /\ NoCallYet
    /\ \E name \in StoreNames :
       \E in \in GateInputs(session_file, now, security_available, keychain, hash_file) :
       \E g \in {Gate(in)} :
       \E r \in {DeleteSecureVariable(g, secure_data_file, export_file, now, name,
                                      TRUE, NotPrompted)} :
           StoreCall("delete_secure_variable", <<name, TRUE>>, g, r)

export_call ==
    /\ NoCallYet
    /\ \E in \in GateInputs(session_file, now, security_available, keychain, hash_file) :
       \E g \in {Gate(in)} :
       \E r \in {ExportSecureVariablesEncrypted(g, secure_data_file, export_file,
                                                now, ExportPath)} :
           StoreCall("export_secure_variables_encrypted", <<ExportPath>>, g, r)

NextUsage ==
    \/ new_process
    \/ logout_first
    \/ add_call
    \/ get_call
    \/ list_call
    \/ update_call
    \/ delete_call
    \/ export_call

\* The first process starts at time 0 on what InitRecords describes.
InitUsage == InitRecords /\ now = 0

SpecUsage == InitUsage /\ [][NextUsage]_vars

(***************************************************************************)
(* C38.  used_count of a record counts the get calls that returned a value *)
(* since the record was last added.  A successful add of `name`, whether   *)
(* the name is new or a confirmed overwrite, leaves the record with        *)
(* used_count 0; a get of `name` that returns a value leaves it with       *)
(* used_count one higher; every other step (update, list, export, a get    *)
(* that returns null, a call on another name, a failed add) leaves the     *)
(* used_count of every record that is still there as it was, so that it    *)
(* only ever goes down by a new add.                                       *)
(***************************************************************************)
AddedNow(name) ==
    /\ Called("add_secure_variable")
    /\ last'.arg[1] = name
    /\ last'.result = "True"

GotNow(name) ==
    /\ Called("get_secure_variable")
    /\ last'.arg[1] = name
    /\ last'.out # None

C38_UsedCountCountsGets ==
    [][ \A name \in RecordNames :
           /\ AddedNow(name) =>
                 /\ name \in DOMAIN StoredAfter
                 /\ StoredAfter[name].used_count = 0
           /\ GotNow(name) =>
                 /\ name \in DOMAIN Stored
                 /\ name \in DOMAIN StoredAfter
                 /\ StoredAfter[name].used_count = Stored[name].used_count + 1
           /\ (/\ ~AddedNow(name) /\ ~GotNow(name)
               /\ name \in DOMAIN Stored /\ name \in DOMAIN StoredAfter)
              => StoredAfter[name].used_count = Stored[name].used_count
      ]_vars

\* "api_key" was read once and exported, its value was updated, and a
\* second get has just returned the new value: used_count is 2.
C38_Witness ==
    /\ last.op = "get_secure_variable" /\ last.arg = <<"api_key">>
    /\ last.out = Some("sk-67890")
    /\ "api_key" \in DOMAIN Stored
    /\ Stored["api_key"].used_count = 2
    /\ export_file.shape = "json"
    /\ export_file.doc.secure_variables["api_key"].used_count = 1

(***************************************************************************)
(* C39.  list(show_values=True), called under a valid session, agrees with *)
(* get on every record of the store: where get(name) would return a string *)
(* in the state list was called in, the listed value is that string, and   *)
(* the listed value is the marker "[DECRYPT_FAILED]" exactly where         *)
(* get(name) would return null.  The listed default_value is the plaintext *)
(* of the stored default where that decrypts under the session's hash, the *)
(* marker "[ENCRYPTED]" where it does not, and null where the record has   *)
(* no default.                                                             *)
(***************************************************************************)
WouldGet(name) ==
    GetSecureVariable(Gate(NoInput), secure_data_file, export_file, now, name).out

StoredDefault(name) ==
    IF Stored[name].encrypted_default = None THEN None
    ELSE LET d == Decrypt(Stored[name].encrypted_default[1],
                          GetPasswordHash(session_file, now))
         IN  IF d # None THEN d ELSE Some("[ENCRYPTED]")

ListAgreesWithGet(name, var_info) ==
    /\ WouldGet(name) # None => var_info.value = WouldGet(name)[1]
    /\ var_info.value = "[DECRYPT_FAILED]" <=> WouldGet(name) = None
    /\ var_info.default_value = StoredDefault(name)

C39_ListShowsWhatGetReturns ==
    [][ /\ Called("list_secure_variables")
        /\ last'.arg[1] = TRUE
        /\ last'.result = "list"
        /\ ValidSessionNow
        => /\ DOMAIN last'.out = DOMAIN Stored
           /\ \A name \in DOMAIN Stored :
                 ListAgreesWithGet(name, last'.out[name]) ]_vars

====
